---- MODULE Spec2Model ----
(***************************************************************************)
(* Model of r-owen/dtx_to_wif_converter.                                   *)
(*                                                                         *)
(* PatternData (src/src/dtx_to_wif/pattern_data.py) is the canonical       *)
(* weaving draft.  Its dataclass constructor stores the field values it is *)
(* given and then runs __post_init__, which cleans the dicts, derives      *)
(* num_shafts, num_treadles, the thread counts and treadling_type, and     *)
(* validates the color fields, raising on the first failed check.          *)
(* read_dtx (dtx_reader.py) and read_wif (wif_reader.py) build a           *)
(* PatternData from a file; write_wif (wif_writer.py) writes one as WIF.   *)
(*                                                                         *)
(* A Python dict is modelled as a sequence of entries [k |-> key,          *)
(* v |-> value] with distinct keys, in insertion order.  An optional value *)
(* (x | None) is modelled as <<>> for None and <<x>> for x.  A set[int] is *)
(* a set of integers, a tuple a sequence.  A float spacing or thickness is *)
(* modelled as the integer number of thousandths (0.212 is 212).           *)
(***************************************************************************)
EXTENDS Integers, Sequences, FiniteSets, TLC

VARIABLES
    dtx,     \* the DTX file handed to read_dtx, NoDtx when there is none
    args,    \* the field values handed to PatternData(...)
    self,    \* the PatternData object: its fields as __post_init__ leaves them
    copy,    \* a second PatternData, constructed from the fields of self
    out,     \* the stream write_wif writes to: the lines written so far
    decoded, \* the PatternData read_wif returns for the lines of out
    pc       \* "read_dtx": read_dtx not yet run; "post_init": fields stored,
             \* __post_init__ not yet run; "done": constructed or raised;
             \* "copied": copy has been constructed; "w_...": write_wif is
             \* about to write that part; "write_failed": write_wif raised;
             \* "written": write_wif returned; "read_back": read_wif has run;
             \* "read_wpo": read_wpo is running; "cli": run_x_to_wif is running
VARIABLES
    wpo,     \* read_wpo: the binary stream and what has been read from it
    cli      \* run_x_to_wif: the arguments, the files and the loop position

vars == <<dtx, args, self, copy, out, decoded, pc, wpo, cli>>

----------------------------------------------------------------------------
(* Python builtins used by pattern_data.py *)

Max2(a, b) == IF a >= b THEN a ELSE b

MaxOf(S) == CHOOSE x \in S : \A y \in S : y <= x

MinOf(S) == CHOOSE x \in S : \A y \in S : x <= y

Range(seq) == {seq[i] : i \in DOMAIN seq}

RECURSIVE SortedSeq(_)
\* sorted(iterable of distinct ints): ascending list
SortedSeq(S) ==
    IF S = {} THEN <<>>
    ELSE LET m == MinOf(S) IN <<m>> \o SortedSeq(S \ {m})

\* dict helpers
Keys(d) == [i \in DOMAIN d |-> d[i].k]

KeySet(d) == {d[i].k : i \in DOMAIN d}

Values(d) == {d[i].v : i \in DOMAIN d}

Get(d, key) == d[CHOOSE i \in DOMAIN d : d[i].k = key].v

None == <<>>

Some(x) == <<x>>

----------------------------------------------------------------------------
(* TreadlingType enum *)

SingleTreadle == "SingleTreadle"

MultiTreadle == "MultiTreadle"

Liftplan == "Liftplan"

\* the attribute treadling_type before __post_init__ assigns it
Unset == "unset"

----------------------------------------------------------------------------
(* What __post_init__ can raise.  "none" is normal completion. *)

NoError == "none"

ErrColorsNoTable == "RuntimeError: warp and/or weft colors specified, but not color table"

ErrEmptyThreading == "ValueError: max() arg is an empty sequence [threading]"

ErrTreadleCount == "RuntimeError: Found more treadles in treadling than in tieup"

ErrMissingTreadling == "RuntimeError: Must specify non-empty liftplan, or both tieup and treadling"

ErrNoColorRange == "RuntimeError: color table specified, but not color range"

ErrRangeLen == "RuntimeError: Invalid color range; must be two values"

ErrRangeOrder == "RuntimeError: Invalid color range; min must be < max"

ErrTableKeys == "RuntimeError: Color table keys not 1, 2, ... N"

ErrChannel == "RuntimeError: color table entry invalid: one or more values not in range"

ErrEmptyColorTable == "ValueError: max() arg is an empty sequence [color_table]"

ErrColorsTooLarge == "RuntimeError: Invalid colors: one or more colors > max_color_in_table"

ErrColorsTooSmall == "RuntimeError: Invalid colors: one or more colors < 1"

ErrDefaultColor == "RuntimeError: Invalid color not in range"

Raise(s, e) == [s EXCEPT !.raised = e]

\* a raised exception propagates: the following block (result t) is skipped
Propagate(s, t) == IF s.raised # NoError THEN s ELSE t

----------------------------------------------------------------------------
(* _clean_dict and _clean_ints_set_dict *)

RECURSIVE PickKeys(_, _, _)
\* {key: data[key] for key in keys if keep[key]}
PickKeys(data, keys, keep) ==
    IF keys = <<>> THEN <<>>
    ELSE LET key == Head(keys)
             rest == PickKeys(data, Tail(keys), keep)
         IN IF key \in keep THEN <<[k |-> key, v |-> Get(data, key)]>> \o rest
            ELSE rest

CleanDict_KeepDefault(data, default_value) ==
    PickKeys(data, SortedSeq(KeySet(data)), KeySet(data))

\* default_value is an optional: None never equals a stored value
CleanDict(data, default_value) ==
    PickKeys(data, SortedSeq(KeySet(data)),
             {key \in KeySet(data) :
                 default_value = None \/ Get(data, key) # default_value[1]})

CleanIntsSetDict_KeepZeroOnly(data) ==
    PickKeys(data, SortedSeq(KeySet(data)),
             {key \in KeySet(data) : Get(data, key) # {}})

CleanIntsSetDict(data) ==
    PickKeys(data, SortedSeq(KeySet(data)),
             {key \in KeySet(data) : Get(data, key) \ {0} # {}})

----------------------------------------------------------------------------
(* __post_init__, block by block.  Each step maps the object (a record     *)
(* with the dataclass fields, treadling_type and the exception raised) to  *)
(* the object after the block.                                             *)

\* "if self.warp_colors or self.weft_colors: if not self.color_table: raise"
CheckColorTablePresent(s) ==
    IF (Len(s.warp_colors) > 0 \/ Len(s.weft_colors) > 0) /\ Len(s.color_table) = 0
    THEN Raise(s, ErrColorsNoTable)
    ELSE s

\* clean warp/weft colors, spacing and thickness against the axis default
CleanWarpWeft(s) ==
    [s EXCEPT !.warp_colors = CleanDict(@, s.warp.color),
              !.warp_spacing = CleanDict(@, s.warp.spacing),
              !.warp_thickness = CleanDict(@, s.warp.thickness),
              !.weft_colors = CleanDict(@, s.weft.color),
              !.weft_spacing = CleanDict(@, s.weft.spacing),
              !.weft_thickness = CleanDict(@, s.weft.thickness)]

CleanShed(s) ==
    [s EXCEPT !.threading = CleanIntsSetDict(@),
              !.tieup = CleanIntsSetDict(@),
              !.treadling = CleanIntsSetDict(@),
              !.liftplan = CleanIntsSetDict(@)]

CleanColorTable_Unsorted(s) == s

\* the color table has no default value: dataclasses._MISSING_TYPE equals no entry
CleanColorTable(s) == [s EXCEPT !.color_table = CleanDict(@, None)]

\* max(max(shafts) for shafts in d.values()), d non-empty with non-empty sets
MaxOfMax(d) == MaxOf({MaxOf(S) : S \in Values(d)})

\* max(len(shafts) for shafts in d.values()), d non-empty
MaxOfLen(d) == MaxOf({Cardinality(S) : S \in Values(d)})

\* self.warp.threads = ...; max_shaft_in_threading = ...; self.num_shafts = ...
DeriveFromThreading(s) ==
    LET s1 == [s EXCEPT !.warp.threads = Max2(Len(s.threading), @)]
    IN IF Len(s1.threading) = 0 THEN Raise(s1, ErrEmptyThreading)
       ELSE [s1 EXCEPT !.num_shafts = Max2(MaxOfMax(s1.threading), @)]

\* max_shafts_in_liftplan_in_tieup
MaxShaftsInLiftplanInTieup(tieup) == MaxOfLen(tieup)

NumTreadlesFromTieup_Sum(tieup, num_treadles) == Len(tieup) + num_treadles

\* self.num_treadles = max(len(self.tieup), self.num_treadles)
NumTreadlesFromTieup(tieup, num_treadles) == Max2(Len(tieup), num_treadles)

\* "if max_num_treadles_per_pick == 1: SingleTreadle else: MultiTreadle"
TreadlingTypeOf(treadling) ==
    IF MaxOfLen(treadling) = 1 THEN SingleTreadle ELSE MultiTreadle

TreadleCountExceeded_Never(num_treadles, treadling) == FALSE

\* "if self.num_treadles < max_treadle_ind_from_treadling: raise"
TreadleCountExceeded(num_treadles, treadling) ==
    num_treadles < MaxOfMax(treadling)

\* the "if self.tieup and self.treadling:" block
TieupTreadlingBranch(s) ==
    LET s1 == [s EXCEPT
                 !.num_shafts = Max2(MaxShaftsInLiftplanInTieup(s.tieup), @),
                 !.num_treadles = NumTreadlesFromTieup(s.tieup, @),
                 !.treadling_type = TreadlingTypeOf(s.treadling),
                 !.weft.threads = Max2(Len(s.treadling), @)]
    IN IF TreadleCountExceeded(s1.num_treadles, s1.treadling)
       THEN Raise(s1, ErrTreadleCount)
       ELSE s1

NumTreadlesForLiftplan_Shafts(num_shafts, num_treadles) == num_shafts

\* self.num_treadles = max(self.num_shafts, self.num_treadles)
NumTreadlesForLiftplan(num_shafts, num_treadles) == Max2(num_shafts, num_treadles)

\* the "elif self.liftplan:" block
LiftplanBranch(s) ==
    LET s1 == [s EXCEPT !.treadling_type = Liftplan,
                        !.num_shafts = Max2(MaxOfMax(s.liftplan), @)]
    IN [s1 EXCEPT !.num_treadles = NumTreadlesForLiftplan(s1.num_shafts, @),
                  !.weft.threads = Max2(Len(s.liftplan), @)]

UseTieupTreadling_UnlessLiftplan(s) ==
    Len(s.tieup) > 0 /\ Len(s.treadling) > 0 /\ Len(s.liftplan) = 0

\* "if self.tieup and self.treadling:"
UseTieupTreadling(s) == Len(s.tieup) > 0 /\ Len(s.treadling) > 0

MissingTreadling_Ignored(s) == s

\* the final "else: raise RuntimeError(Must specify non-empty liftplan, ...)"
MissingTreadling(s) == Raise(s, ErrMissingTreadling)

\* "Favor tieup + treadling over liftplan": if / elif / else
ModeBranch(s) ==
    IF UseTieupTreadling(s) THEN TieupTreadlingBranch(s)
    ELSE IF Len(s.liftplan) > 0 THEN LiftplanBranch(s)
    ELSE MissingTreadling(s)

TableWithoutRange_Allowed(s) == FALSE

\* "if self.color_table and self.color_range is None:"
TableWithoutRange(s) == Len(s.color_table) > 0 /\ s.color_range = None

ChannelOutOfRange_MinOnly(color_rgb, color_range) ==
    MinOf(Range(color_rgb)) < color_range[1]

\* "min(color_rgb) < self.color_range[0] or max(color_rgb) > self.color_range[1]"
ChannelOutOfRange(color_rgb, color_range) ==
    \/ MinOf(Range(color_rgb)) < color_range[1]
    \/ MaxOf(Range(color_rgb)) > color_range[2]

\* list(range(1, n + 1))
Range1(n) == [i \in 1..n |-> i]

\* the "if self.color_range is not None:" block
CheckColorRange(s) ==
    LET color_range == s.color_range[1]
    IN IF Len(color_range) # 2 THEN Raise(s, ErrRangeLen)
       ELSE IF color_range[1] >= color_range[2] THEN Raise(s, ErrRangeOrder)
       ELSE IF Len(s.color_table) = 0 THEN s
       ELSE IF Keys(s.color_table) # Range1(Len(s.color_table))
            THEN Raise(s, ErrTableKeys)
       ELSE IF \E i \in DOMAIN s.color_table :
                   ChannelOutOfRange(s.color_table[i].v, color_range)
            THEN Raise(s, ErrChannel)
       ELSE s

\* color table / color range checks that follow the mode branch
CheckColorTable(s) ==
    IF TableWithoutRange(s) THEN Raise(s, ErrNoColorRange)
    ELSE IF s.color_range # None THEN CheckColorRange(s)
    ELSE s

CheckAxisColors_NoLowerBound(ww_colors, ww_info, max_color_in_table) ==
    IF Len(ww_colors) > 0 /\ MaxOf(Values(ww_colors)) > max_color_in_table
    THEN ErrColorsTooLarge
    ELSE IF ww_info.color # None /\ ww_info.color[1] > max_color_in_table
    THEN ErrDefaultColor
    ELSE NoError

\* one pass of "for ww_name in (warp, weft):"; NoError when nothing is raised
CheckAxisColors(ww_colors, ww_info, max_color_in_table) ==
    IF Len(ww_colors) > 0 /\ MaxOf(Values(ww_colors)) > max_color_in_table
    THEN ErrColorsTooLarge
    ELSE IF Len(ww_colors) > 0 /\ MinOf(Values(ww_colors)) < 1
    THEN ErrColorsTooSmall
    ELSE IF ww_info.color # None
            /\ (ww_info.color[1] < 1 \/ ww_info.color[1] > max_color_in_table)
    THEN ErrDefaultColor
    ELSE NoError

\* "Check that all color values are in range"
CheckColorIndices(s) ==
    IF Len(s.color_table) = 0 THEN Raise(s, ErrEmptyColorTable)
    ELSE LET max_color_in_table == MaxOf(KeySet(s.color_table))
             warp_err == CheckAxisColors(s.warp_colors, s.warp, max_color_in_table)
             weft_err == CheckAxisColors(s.weft_colors, s.weft, max_color_in_table)
         IN IF warp_err # NoError THEN Raise(s, warp_err)
            ELSE IF weft_err # NoError THEN Raise(s, weft_err)
            ELSE s

PostInitOf_ColorsCheckedLast(s) ==
    LET s2 == CleanWarpWeft(s)
        s3 == Propagate(s2, CleanShed(s2))
        s4 == Propagate(s3, CleanColorTable(s3))
        s5 == Propagate(s4, DeriveFromThreading(s4))
        s6 == Propagate(s5, ModeBranch(s5))
        s7 == Propagate(s6, CheckColorTablePresent(s6))
        s8 == Propagate(s7, CheckColorTable(s7))
    IN Propagate(s8, CheckColorIndices(s8))

\* PatternData.__post_init__: the blocks in source order, stopping at a raise
PostInitOf(s) ==
    LET s1 == CheckColorTablePresent(s)
        s2 == Propagate(s1, CleanWarpWeft(s1))
        s3 == Propagate(s2, CleanShed(s2))
        s4 == Propagate(s3, CleanColorTable(s3))
        s5 == Propagate(s4, DeriveFromThreading(s4))
        s6 == Propagate(s5, ModeBranch(s5))
        s7 == Propagate(s6, CheckColorTable(s6))
    IN Propagate(s7, CheckColorIndices(s7))

----------------------------------------------------------------------------
(* Text.  A Python str is a sequence of one-character strings; a word the  *)
(* program never looks inside ("true", "centimeters", a key such as        *)
(* "Title") is kept whole as one element.                                  *)

Digits == <<"0", "1", "2", "3", "4", "5", "6", "7", "8", "9">>

RECURSIVE StrNat(_)
\* str(n) for n >= 0
StrNat(n) ==
    IF n < 10 THEN <<Digits[n + 1]>>
    ELSE StrNat(n \div 10) \o <<Digits[(n % 10) + 1]>>

\* str(n) for an int
StrInt(n) == IF n < 0 THEN <<"-">> \o StrNat(-n) ELSE StrNat(n)

\* f"{value:0.3f}" for a value of t thousandths, t >= 0
Format3f(t) ==
    StrNat(t \div 1000) \o <<".">>
        \o <<Digits[((t \div 100) % 10) + 1], Digits[((t \div 10) % 10) + 1],
             Digits[(t % 10) + 1]>>

RECURSIVE Join(_, _)
\* sep.join(texts)
Join(sep, texts) ==
    IF texts = <<>> THEN <<>>
    ELSE IF Len(texts) = 1 THEN texts[1]
    ELSE texts[1] \o sep \o Join(sep, Tail(texts))

\* [str(x) for x in seq]
StrInts(seq) == [i \in DOMAIN seq |-> StrInt(seq[i])]

\* str(t) for a tuple of ints: "(1, 2, 3)", "(1,)", "()"
StrTuple(t) ==
    IF Len(t) = 1 THEN <<"(">> \o StrInt(t[1]) \o <<",", ")">>
    ELSE <<"(">> \o Join(<<",", " ">>, StrInts(t)) \o <<")">>

----------------------------------------------------------------------------
(* write_wif.  The output stream is a sequence of lines: a section header  *)
(* "[NAME]" or an entry "key=value"; the blank line before a header is not *)
(* modelled.                                                               *)

\* the line "[name]"
Header(name) == [header |-> name, key |-> <<>>, value |-> <<>>]

\* the line "key=value"
Entry(key, value) == [header |-> "", key |-> key, value |-> value]

\* bool(value) of a dict, list, tuple or None, all modelled as sequences
Truthy(value) == Len(value) > 0

\* as_wif_bool, applied to the truth value of its argument
as_wif_bool(value) == IF value THEN <<"true">> ELSE <<"false">>

\* the first f.write: [WIF], [CONTENTS] and [TEXT]
HeaderLines(data) ==
    <<Header("WIF"),
      Entry(<<"Version">>, <<"1", ".", "1">>),
      Entry(<<"Date">>, <<"April 20, 1997">>),
      Entry(<<"Developers">>, <<"wif@mhsoft.com">>),
      Entry(<<"Source Program">>, data.source_program),
      Entry(<<"Source Version">>, data.source_version),
      Header("CONTENTS"),
      Entry(<<"COLOR PALETTE">>, as_wif_bool(Truthy(data.color_table))),
      Entry(<<"TEXT">>, <<"true">>),
      Entry(<<"WEAVING">>, <<"true">>),
      Entry(<<"WARP">>, as_wif_bool(TRUE)),
      Entry(<<"WEFT">>, as_wif_bool(TRUE)),
      Entry(<<"COLOR TABLE">>, <<"true">>),
      Entry(<<"THREADING">>, <<"true">>),
      Entry(<<"TIEUP">>, as_wif_bool(Truthy(data.tieup))),
      Entry(<<"TREADLING">>, as_wif_bool(Truthy(data.treadling))),
      Entry(<<"LIFTPLAN">>, as_wif_bool(Truthy(data.liftplan))),
      Entry(<<"WARP COLORS">>, as_wif_bool(Truthy(data.warp_colors))),
      Entry(<<"WEFT COLORS">>, as_wif_bool(Truthy(data.weft_colors))),
      Entry(<<"WARP SPACING">>, as_wif_bool(Truthy(data.warp_spacing))),
      Entry(<<"WEFT SPACING">>, as_wif_bool(Truthy(data.weft_spacing))),
      Entry(<<"WARP THICKNESS">>, as_wif_bool(Truthy(data.warp_thickness))),
      Entry(<<"WEFT THICKNESS">>, as_wif_bool(Truthy(data.weft_thickness))),
      Header("TEXT"),
      Entry(<<"Title">>, data.name)>>

SectionIf_Always(name, d, lines) == <<Header(name)>> \o lines

\* "if d: f.write([name]); for ... in d.items(): f.write(line)"
SectionIf(name, d, lines) ==
    IF Truthy(d) THEN <<Header(name)>> \o lines ELSE <<>>

\* f"{thread}={color}" for each item
IntLines(d) == [i \in DOMAIN d |-> Entry(StrInt(d[i].k), StrInt(d[i].v))]

\* f"{thread}={value:0.3f}" for each item
FloatLines(d) == [i \in DOMAIN d |-> Entry(StrInt(d[i].k), Format3f(d[i].v))]

\* f"{thread}={shafts_str}" with shafts_str = ",".join(str(s) for s in sorted(shafts))
SetLines(d) ==
    [i \in DOMAIN d |->
        Entry(StrInt(d[i].k), Join(<<",">>, StrInts(SortedSeq(d[i].v))))]

ColorLines_WeftFirst(data) ==
    SectionIf("WEFT COLORS", data.weft_colors, IntLines(data.weft_colors))
        \o SectionIf("WARP COLORS", data.warp_colors, IntLines(data.warp_colors))

\* "Write WARP COLORS, WEFT COLORS"
ColorLines(data) ==
    SectionIf("WARP COLORS", data.warp_colors, IntLines(data.warp_colors))
        \o SectionIf("WEFT COLORS", data.weft_colors, IntLines(data.weft_colors))

\* "Write WARP SPACING, WARP THICKNESS, WEFT SPACING, WEFT THICKNESS"
SpacingThicknessLines(data) ==
    SectionIf("WARP SPACING", data.warp_spacing, FloatLines(data.warp_spacing))
        \o SectionIf("WARP THICKNESS", data.warp_thickness,
                     FloatLines(data.warp_thickness))
        \o SectionIf("WEFT SPACING", data.weft_spacing,
                     FloatLines(data.weft_spacing))
        \o SectionIf("WEFT THICKNESS", data.weft_thickness,
                     FloatLines(data.weft_thickness))

\* [THREADING] is written whatever the threading holds
ThreadingLines(data) == <<Header("THREADING")>> \o SetLines(data.threading)

\* [TIEUP], [TREADLING], [LIFTPLAN]
ShedLines(data) ==
    SectionIf("TIEUP", data.tieup, SetLines(data.tieup))
        \o SectionIf("TREADLING", data.treadling, SetLines(data.treadling))
        \o SectionIf("LIFTPLAN", data.liftplan, SetLines(data.liftplan))

WeavingLines(data) ==
    <<Header("WEAVING"),
      Entry(<<"Rising Shed">>, as_wif_bool(data.is_rising_shed)),
      Entry(<<"Treadles">>, StrInt(data.num_treadles)),
      Entry(<<"Shafts">>, StrInt(data.num_shafts))>>

\* color_values = [color]; if color_rgb is not None: color_values.append(color_rgb);
\* ",".join(str(value) for value in color_values)
ColorValueStr(ww_data) ==
    Join(<<",">>,
         <<StrInt(ww_data.color[1])>>
            \o (IF ww_data.color_rgb # None
                THEN <<StrTuple(ww_data.color_rgb[1])>> ELSE <<>>))

\* one pass of "for name in (warp, weft):" of "Write WARP and WEFT"
AxisLines(name, ww_data) ==
    <<Header(name), Entry(<<"Threads">>, StrInt(ww_data.threads))>>
        \o (IF ww_data.color # None
            THEN <<Entry(<<"Color">>, ColorValueStr(ww_data))>> ELSE <<>>)
        \o (IF ww_data.spacing # None
            THEN <<Entry(<<"Spacing">>, Format3f(ww_data.spacing[1]))>> ELSE <<>>)
        \o (IF ww_data.thickness # None
            THEN <<Entry(<<"Thickness">>, Format3f(ww_data.thickness[1]))>>
            ELSE <<>>)
        \o (IF ww_data.units # None
            THEN <<Entry(<<"Units">>, ww_data.units[1])>> ELSE <<>>)

WarpWeftLines(data) == AxisLines("WARP", data.warp) \o AxisLines("WEFT", data.weft)

\* "len(rgbcolors) != 3" or "min(rgbcolors) < 0 or max(rgbcolors) > 255"
BadColor(rgbcolors) ==
    \/ Len(rgbcolors) # 3
    \/ MinOf(Range(rgbcolors)) < 0
    \/ MaxOf(Range(rgbcolors)) > 255

\* the entries of the color table that raise
BadColors(color_table) ==
    {i \in DOMAIN color_table : BadColor(color_table[i].v)}

\* what the [COLOR TABLE] loop has written when it ends or raises: the
\* header and a line for every entry before the first bad one
ColorTableLines(data) ==
    LET bad == BadColors(data.color_table)
        n == IF bad = {} THEN Len(data.color_table) ELSE MinOf(bad) - 1
    IN IF ~Truthy(data.color_table) THEN <<>>
       ELSE <<Header("COLOR TABLE")>>
                \o [i \in 1..n |->
                      Entry(StrInt(data.color_table[i].k),
                            Join(<<",">>, StrInts(data.color_table[i].v)))]

\* [COLOR PALETTE], nested in "if data.color_table:"
ColorPaletteLines(data) ==
    IF Truthy(data.color_table) /\ data.color_range # None
    THEN <<Header("COLOR PALETTE"),
           Entry(<<"Range">>,
                 StrInt(data.color_range[1][1]) \o <<",">>
                    \o StrInt(data.color_range[1][2])),
           Entry(<<"Entries">>, StrInt(Len(data.color_table)))>>
    ELSE <<>>

----------------------------------------------------------------------------
(* Parsing text: str.strip, str.split, int(), float()                      *)

RECURSIVE LStrip(_)
LStrip(text) ==
    IF text # <<>> /\ Head(text) = " " THEN LStrip(Tail(text)) ELSE text

RECURSIVE RStrip(_)
RStrip(text) ==
    IF text # <<>> /\ text[Len(text)] = " "
    THEN RStrip(SubSeq(text, 1, Len(text) - 1)) ELSE text

\* text.strip()
Strip(text) == RStrip(LStrip(text))

RECURSIVE Split(_, _)
\* text.split(sep) for a one-character sep
Split(text, sep) ==
    IF \A i \in DOMAIN text : text[i] # sep THEN <<text>>
    ELSE LET i == MinOf({j \in DOMAIN text : text[j] = sep})
         IN <<SubSeq(text, 1, i - 1)>> \o Split(SubSeq(text, i + 1, Len(text)), sep)

IsDigits(text) == text # <<>> /\ \A i \in DOMAIN text : text[i] \in Range(Digits)

DigitVal(c) == CHOOSE d \in 0..9 : Digits[d + 1] = c

RECURSIVE NatOf(_)
\* the value of a string of digits
NatOf(text) ==
    IF text = <<>> THEN 0
    ELSE 10 * NatOf(SubSeq(text, 1, Len(text) - 1)) + DigitVal(text[Len(text)])

\* int(text) returns rather than raising ValueError
IntText(text) ==
    LET s == Strip(text)
    IN IF s # <<>> /\ Head(s) \in {"-", "+"} THEN IsDigits(Tail(s)) ELSE IsDigits(s)

\* int(text), for text that int() accepts
ParseInt(text) ==
    LET s == Strip(text)
    IN IF Head(s) = "-" THEN 0 - NatOf(Tail(s))
       ELSE IF Head(s) = "+" THEN NatOf(Tail(s))
       ELSE NatOf(s)

\* float(text) returns rather than raising, for decimal text "d.ddd" or "d"
FloatText(text) ==
    LET parts == Split(Strip(text), ".")
    IN /\ Len(parts) \in {1, 2}
       /\ IsDigits(parts[1])
       /\ Len(parts) = 2 => (IsDigits(parts[2]) /\ Len(parts[2]) <= 3)

\* float(text) in thousandths, for text that FloatText accepts
ParseFloat(text) ==
    LET parts == Split(Strip(text), ".")
        frac == IF Len(parts) = 2 THEN parts[2] ELSE <<>>
        pad == [i \in 1..3 |-> IF i <= Len(frac) THEN frac[i] ELSE "0"]
    IN 1000 * NatOf(parts[1]) + NatOf(pad)

----------------------------------------------------------------------------
(* configparser.ConfigParser as read_wif uses it                           *)

\* old_section_name.lower().replace(" ", "_") for the section names of WIF
SectionKey(name) ==
    CASE name = "WIF" -> "wif"
      [] name = "CONTENTS" -> "contents"
      [] name = "TEXT" -> "text"
      [] name = "WARP COLORS" -> "warp_colors"
      [] name = "WEFT COLORS" -> "weft_colors"
      [] name = "WARP SPACING" -> "warp_spacing"
      [] name = "WARP THICKNESS" -> "warp_thickness"
      [] name = "WEFT SPACING" -> "weft_spacing"
      [] name = "WEFT THICKNESS" -> "weft_thickness"
      [] name = "THREADING" -> "threading"
      [] name = "TIEUP" -> "tieup"
      [] name = "TREADLING" -> "treadling"
      [] name = "LIFTPLAN" -> "liftplan"
      [] name = "WEAVING" -> "weaving"
      [] name = "WARP" -> "warp"
      [] name = "WEFT" -> "weft"
      [] name = "COLOR TABLE" -> "color_table"
      [] name = "COLOR PALETTE" -> "color_palette"
      [] OTHER -> name

\* optionxform: str.lower() of an option name
LowerWord(w) ==
    CASE w = "Title" -> "title"
      [] w = "Version" -> "version"
      [] w = "Date" -> "date"
      [] w = "Developers" -> "developers"
      [] w = "Source Program" -> "source program"
      [] w = "Source Version" -> "source version"
      [] w = "Rising Shed" -> "rising shed"
      [] w = "Treadles" -> "treadles"
      [] w = "Shafts" -> "shafts"
      [] w = "Threads" -> "threads"
      [] w = "Color" -> "color"
      [] w = "Spacing" -> "spacing"
      [] w = "Thickness" -> "thickness"
      [] w = "Units" -> "units"
      [] w = "Range" -> "range"
      [] w = "Entries" -> "entries"
      [] OTHER -> w

OptionXForm(key) == [i \in DOMAIN key |-> LowerWord(key[i])]

\* the header lines of the stream, in order
HeaderIndices(lines) == {i \in DOMAIN lines : lines[i].header # ""}

SectionNames(lines) ==
    LET idx == SortedSeq(HeaderIndices(lines))
    IN [i \in DOMAIN idx |-> lines[idx[i]].header]

\* the entries that follow the header [name], with keys lowercased and
\* values stripped
SectionEntries(lines, name) ==
    LET idx == SortedSeq(
                 {i \in DOMAIN lines :
                    /\ lines[i].header = ""
                    /\ \E h \in HeaderIndices(lines) :
                          /\ h < i /\ lines[h].header = name
                          /\ \A g \in HeaderIndices(lines) : g < i => g <= h})
    IN [i \in DOMAIN idx |->
          [k |-> OptionXForm(lines[idx[i]].key), v |-> Strip(lines[idx[i]].value)]]

HasSection(lines, key) == \E i \in HeaderIndices(lines) : SectionKey(lines[i].header) = key

\* the entries of the section that read_wif renames to key
RawSection(lines, key) ==
    IF HasSection(lines, key)
    THEN SectionEntries(lines,
            lines[CHOOSE i \in HeaderIndices(lines) :
                     SectionKey(lines[i].header) = key].header)
    ELSE <<>>

\* read_file raises DuplicateSectionError / DuplicateOptionError
Duplicates(lines) ==
    \/ \E i, j \in HeaderIndices(lines) : i # j /\ lines[i].header = lines[j].header
    \/ \E i \in HeaderIndices(lines) :
          LET es == SectionEntries(lines, lines[i].header)
          IN \E a, b \in DOMAIN es : a # b /\ es[a].k = es[b].k

RECURSIVE PercentsPaired(_)
\* BasicInterpolation accepts the value: every "%" is followed by "%"
\* (no value explored holds the "%(name)s" form)
PercentsPaired(text) ==
    IF text = <<>> THEN TRUE
    ELSE IF Head(text) # "%" THEN PercentsPaired(Tail(text))
    ELSE Len(text) >= 2 /\ text[2] = "%" /\ PercentsPaired(SubSeq(text, 3, Len(text)))

RECURSIVE Unescape(_)
\* BasicInterpolation of an accepted value: "%%" becomes "%"
Unescape(text) ==
    IF text = <<>> THEN <<>>
    ELSE IF Head(text) # "%" THEN <<Head(text)>> \o Unescape(Tail(text))
    ELSE <<"%">> \o Unescape(SubSeq(text, 3, Len(text)))

\* the section-renaming loop reads every value with items() (interpolated)
\* and stores it with set() (validated); a later get() interpolates again
RenameFails(lines) ==
    \E i \in DOMAIN lines :
        /\ lines[i].header = ""
        /\ \/ ~PercentsPaired(Strip(lines[i].value))
           \/ ~PercentsPaired(Unescape(Strip(lines[i].value)))

\* the value get() returns for a stored raw value
Interpolated(value) == Unescape(Unescape(value))

\* the renamed section as a dict of option: interpolated value
Section(lines, key) ==
    LET es == RawSection(lines, key)
    IN [i \in DOMAIN es |-> [k |-> es[i].k, v |-> Interpolated(es[i].v)]]

HasOption(section, option) == \E i \in DOMAIN section : section[i].k = <<option>>

\* raw_data.get(section, option, fallback=None) as an optional
GetOption(section, option) ==
    IF HasOption(section, option) THEN Some(Get(section, <<option>>)) ELSE None

----------------------------------------------------------------------------
(* read_wif *)

ErrConfigParser == "configparser.Error: duplicate section or option [read_wif]"

ErrInterpolation == "configparser.InterpolationSyntaxError or ValueError: invalid interpolation syntax [read_wif]"

ErrIntLiteral == "ValueError: invalid literal for int() [read_wif]"

ErrFloatLiteral == "ValueError: could not convert string to float [read_wif]"

ErrNotBoolean == "ValueError: Not a boolean [read_wif]"

ErrColorTableEntry == "RuntimeError: Cannot parse color; value must be 3 ints [read_wif]"

ErrPaletteRange == "RuntimeError: COLOR PALETTE: RANGE must contain two values [read_wif]"

ErrUnboundColorRange == "UnboundLocalError: color_range [read_wif]"

\* a reader that raised before PatternData was constructed
ReadFailed(e) == [raised |-> e]

\* entries whose value.strip() is non-empty
NonBlank(section) ==
    LET idx == SortedSeq({i \in DOMAIN section : Strip(section[i].v) # <<>>})
    IN [i \in DOMAIN idx |-> section[idx[i]]]

\* every key and every comma-separated piece of every value is an int
IntsOK(section) ==
    \A i \in DOMAIN section :
        /\ IntText(section[i].k)
        /\ \A p \in Range(Split(section[i].v, ",")) : IntText(p)

FloatsOK(section) ==
    \A i \in DOMAIN section : IntText(section[i].k) /\ FloatText(section[i].v)

\* [int(p) for p in value.split(",")]
IntList(value) ==
    LET ps == Split(value, ",") IN [i \in DOMAIN ps |-> ParseInt(ps[i])]

process_as_dict_of_int(section) ==
    LET es == NonBlank(section)
    IN [i \in DOMAIN es |-> [k |-> ParseInt(es[i].k), v |-> ParseInt(es[i].v)]]

wif_process_color_table(section) ==
    [i \in DOMAIN section |->
        [k |-> ParseInt(section[i].k), v |-> IntList(section[i].v)]]

process_as_dict_of_int_sets(section) ==
    LET es == NonBlank(section)
    IN [i \in DOMAIN es |->
          [k |-> ParseInt(es[i].k), v |-> Range(IntList(es[i].v))]]

process_as_dict_of_float(section) ==
    LET es == NonBlank(section)
    IN [i \in DOMAIN es |-> [k |-> ParseInt(es[i].k), v |-> ParseFloat(es[i].v)]]

\* the first exception raised by the section processors, NoError if none
ProcessError(lines) ==
    IF \E key \in {"threading", "tieup", "treadling", "liftplan"} :
          ~IntsOK(NonBlank(Section(lines, key)))
    THEN ErrIntLiteral
    ELSE IF ~IntsOK(Section(lines, "color_table")) THEN ErrIntLiteral
    ELSE IF \E e \in Range(Section(lines, "color_table")) :
               Len(Split(e.v, ",")) # 3
    THEN ErrColorTableEntry
    ELSE IF \E key \in {"warp_colors", "weft_colors"} :
               ~IntsOK(NonBlank(Section(lines, key)))
    THEN ErrIntLiteral
    ELSE IF \E key \in {"warp_spacing", "weft_spacing", "warp_thickness",
                        "weft_thickness"} :
               ~FloatsOK(NonBlank(Section(lines, key)))
    THEN ErrFloatLiteral
    ELSE NoError

\* the exception of one pass of "for wwname in (warp, weft):", NoError if none
AxisError(section) ==
    LET colorstr == GetOption(section, "color")
    IN IF colorstr # None /\ colorstr[1] # <<>>
          /\ \E p \in Range(Split(colorstr[1], ",")) : ~IntText(p)
       THEN ErrIntLiteral
       ELSE IF HasOption(section, "threads") /\ ~IntText(Get(section, <<"threads">>))
       THEN ErrIntLiteral
       ELSE IF \E o \in {"spacing", "thickness"} :
                  HasOption(section, o) /\ ~FloatText(Get(section, <<o>>))
       THEN ErrFloatLiteral
       ELSE NoError

\* WarpWeftData(...) of one pass of "for wwname in (warp, weft):"
AxisData(section) ==
    LET colorstr == GetOption(section, "color")
        colorvalues == IF colorstr # None /\ colorstr[1] # <<>>
                       THEN IntList(colorstr[1]) ELSE <<>>
    IN [threads |-> IF HasOption(section, "threads")
                    THEN ParseInt(Get(section, <<"threads">>)) ELSE 0,
        color |-> IF colorvalues # <<>> THEN Some(colorvalues[1]) ELSE None,
        color_rgb |-> IF Len(colorvalues) = 4
                      THEN Some(SubSeq(colorvalues, 2, 4)) ELSE None,
        spacing |-> IF HasOption(section, "spacing")
                    THEN Some(ParseFloat(Get(section, <<"spacing">>))) ELSE None,
        thickness |-> IF HasOption(section, "thickness")
                      THEN Some(ParseFloat(Get(section, <<"thickness">>))) ELSE None,
        units |-> GetOption(section, "units")]

\* getboolean: "true" / "false" and their synonyms, else ValueError
BooleanText(value) == value \in {<<"true">>, <<"false">>}

\* the fallback of raw_data.get(section, option, fallback=...)
GetOr(section, option, fallback) ==
    IF HasOption(section, option) THEN Get(section, <<option>>) ELSE fallback

\* the arguments read_wif hands to PatternData, for a stream that raised
\* nothing before
WifArgs(lines) ==
    LET weaving == Section(lines, "weaving")
        wif == Section(lines, "wif")
    IN [name |-> GetOr(Section(lines, "text"), "title", <<"?">>),
        threading |-> process_as_dict_of_int_sets(Section(lines, "threading")),
        tieup |-> process_as_dict_of_int_sets(Section(lines, "tieup")),
        treadling |-> process_as_dict_of_int_sets(Section(lines, "treadling")),
        liftplan |-> process_as_dict_of_int_sets(Section(lines, "liftplan")),
        color_table |-> wif_process_color_table(Section(lines, "color_table")),
        warp |-> AxisData(Section(lines, "warp")),
        weft |-> AxisData(Section(lines, "weft")),
        warp_colors |-> process_as_dict_of_int(Section(lines, "warp_colors")),
        warp_spacing |-> process_as_dict_of_float(Section(lines, "warp_spacing")),
        warp_thickness |->
            process_as_dict_of_float(Section(lines, "warp_thickness")),
        weft_colors |-> process_as_dict_of_int(Section(lines, "weft_colors")),
        weft_spacing |-> process_as_dict_of_float(Section(lines, "weft_spacing")),
        weft_thickness |->
            process_as_dict_of_float(Section(lines, "weft_thickness")),
        color_range |->
            Some(IntList(Get(Section(lines, "color_palette"), <<"range">>))),
        is_rising_shed |->
            GetOr(weaving, "rising shed", <<"true">>) = <<"true">>,
        source_program |-> GetOr(wif, "source program", <<"?">>),
        source_version |-> GetOr(wif, "source version", <<"?">>),
        num_shafts |-> IF HasOption(weaving, "shafts")
                       THEN ParseInt(Get(weaving, <<"shafts">>)) ELSE 0,
        num_treadles |-> IF HasOption(weaving, "treadles")
                         THEN ParseInt(Get(weaving, <<"treadles">>)) ELSE 0]

----------------------------------------------------------------------------
(* read_dtx.  A DTX file is modelled after line splitting: for each        *)
(* section, None when the file has no such section, else its content as    *)
(* read_dtx tokenizes it (a list of ints, rows of 0/1, a list of ints per  *)
(* pick, a list of ints per color).                                        *)

\* in thousandths of a cm
UnitFiberSpacing == 53

DefaultIntSpacing == 4

DefaultFiberSpacing == UnitFiberSpacing * DefaultIntSpacing

\* the filename argument of read_dtx
Filename == <<"?">>

ErrIndex == "IndexError: index out of range [read_dtx]"

ErrDtxColor == "RuntimeError: Color invalid; not 3 ints [read_dtx]"

\* sections[""] for a data line met before any "@@" line
ErrKey == "KeyError: '' [read_dtx]"

\* {thread + 1: {value} for thread, value in enumerate(intlist)}
process_threading(intlist) ==
    [i \in DOMAIN intlist |-> [k |-> i, v |-> {intlist[i]}]]

\* rows are picks, each a row of 0/1; 1 lifts the shaft of that column
process_liftplan(rows) ==
    [pick \in DOMAIN rows |->
        [k |-> pick, v |-> {i \in DOMAIN rows[pick] : rows[pick][i] = 1}]]

\* 0-based color indices become 1-based
process_warpweft_colors(int_values) ==
    [i \in DOMAIN int_values |-> [k |-> i, v |-> int_values[i] + 1]]

\* multiples of UnitFiberSpacing
process_warpweft_spacing(int_values) ==
    [i \in DOMAIN int_values |-> [k |-> i, v |-> int_values[i] * UnitFiberSpacing]]

\* rows are shafts, shaft 1 last; one column per treadle
process_tieup(rows) ==
    [treadle \in 1..Len(rows[1]) |->
        [k |-> treadle,
         v |-> {i \in DOMAIN rows : rows[Len(rows) + 1 - i][treadle] = 1}]]

\* one set of treadles per pick
process_treadling(treadle_sets) ==
    [pick \in DOMAIN treadle_sets |->
        [k |-> pick, v |-> Range(treadle_sets[pick])]]

\* one (r, g, b) per line, keyed from 1
dtx_process_color_table(rgbs) == [i \in DOMAIN rgbs |-> [k |-> i, v |-> rgbs[i]]]

\* the dicts of argdict
DtxDicts(file) ==
    [threading |-> IF file.threading = None THEN <<>> ELSE (process_threading(file.threading[1])),
     tieup |-> IF file.tieup = None THEN <<>> ELSE (process_tieup(file.tieup[1])),
     treadling |-> IF file.treadling = None THEN <<>> ELSE (process_treadling(file.treadling[1])),
     liftplan |-> IF file.liftplan = None THEN <<>> ELSE (process_liftplan(file.liftplan[1])),
     color_table |->
        IF file.color_table = None THEN <<>> ELSE (dtx_process_color_table(file.color_table[1])),
     warp_colors |->
        IF file.warp_colors = None THEN <<>> ELSE (process_warpweft_colors(file.warp_colors[1])),
     weft_colors |->
        IF file.weft_colors = None THEN <<>> ELSE (process_warpweft_colors(file.weft_colors[1])),
     warp_spacing |->
        IF file.warp_spacing = None THEN <<>> ELSE (process_warpweft_spacing(file.warp_spacing[1])),
     weft_spacing |->
        IF file.weft_spacing = None THEN <<>> ELSE (process_warpweft_spacing(file.weft_spacing[1]))]

\* "if ww_colors: ww_colors[1]; elif color_table in argdict: 1 or 2": the
\* key color_table is always in argdict
DefaultColor(ww_colors, fallback) ==
    IF Truthy(ww_colors) THEN Some(Get(ww_colors, 1)) ELSE Some(fallback)

\* WarpWeftData(threads=..., color=..., spacing=DefaultFiberSpacing, ...)
DtxAxis(threads, color) ==
    [threads |-> IF threads = None THEN 0 ELSE threads[1],
     color |-> color, color_rgb |-> None,
     spacing |-> Some(DefaultFiberSpacing), thickness |-> None,
     units |-> Some(<<"centimeters">>)]

\* the second word of the imprint line, cut to major.minor
SourceVersion(imprint) ==
    LET source_version == IF imprint = None THEN <<"?">> ELSE imprint[1][2]
        parts == Split(source_version, ".")
    IN IF Len(parts) > 1 THEN parts[1] \o <<".">> \o parts[2] ELSE source_version

\* what read_dtx raises before it calls PatternData, NoError if nothing
DtxError(file) ==
    IF file.leading # <<>> THEN ErrKey
    ELSE IF file.tieup # None /\ file.tieup[1] = <<>> THEN ErrIndex
    ELSE IF file.color_table # None
            /\ \E i \in DOMAIN file.color_table[1] : Len(file.color_table[1][i]) # 3
    THEN ErrDtxColor
    ELSE IF file.imprint # None /\ Len(file.imprint[1]) < 2 THEN ErrIndex
    ELSE NoError

\* the arguments read_dtx hands to PatternData
DtxArgs(file) ==
    LET d == DtxDicts(file)
    IN [name |-> IF file.description = None THEN Filename ELSE file.description[1],
        threading |-> d.threading, tieup |-> d.tieup, treadling |-> d.treadling,
        liftplan |-> d.liftplan, color_table |-> d.color_table,
        warp |-> DtxAxis(file.ends, DefaultColor(d.warp_colors, 1)),
        weft |-> DtxAxis(file.picks, DefaultColor(d.weft_colors, 2)),
        warp_colors |-> d.warp_colors, warp_spacing |-> d.warp_spacing,
        warp_thickness |-> <<>>,
        weft_colors |-> d.weft_colors, weft_spacing |-> d.weft_spacing,
        weft_thickness |-> <<>>,
        color_range |-> Some(<<0, 255>>),
        is_rising_shed |-> TRUE,
        source_program |-> <<"Fiberworks PCW">>,
        source_version |-> SourceVersion(file.imprint),
        num_shafts |-> IF file.shafts = None THEN 0 ELSE file.shafts[1],
        num_treadles |-> IF file.treadles = None THEN 0 ELSE file.treadles[1]]

----------------------------------------------------------------------------
(* run_x_to_wif.  A path is a record of its stem and its suffix.  The      *)
(* record c is the state of one run: the command line (inpath, overwrite), *)
(* the place in the loop over inpath (next), every path the loop inserted  *)
(* (listed), the dict infiles in insertion order, the place in the loop    *)
(* over infiles (index), for every stem the state of its .wif file (files; *)
(* before is files at the start), how often the reader was called for the  *)
(* stem (reads), and one entry per finished pass of the loop (log).        *)

\* the suffix the script converts
Suffix == ".dtx"

DtxPath(stem) == [stem |-> stem, suffix |-> Suffix]

\* the files of the run: one at the top and two in the directory d
Stems == {"a", "d/x", "d/y"}

\* infile.with_suffix(".wif")
with_suffix(path, suffix) == [path EXCEPT !.suffix = suffix]

\* the orders in which inpath.rglob("*.dtx") may yield the files under path
rglob(path) ==
    IF path = [stem |-> "d", suffix |-> ""]
    THEN {<<DtxPath("d/x"), DtxPath("d/y")>>, <<DtxPath("d/y"), DtxPath("d/x")>>}
    ELSE {<<>>}

\* infiles[path] = None: a key already in the dict keeps its place
Put(infiles, path) ==
    IF path \in Range(infiles) THEN infiles ELSE Append(infiles, path)

RECURSIVE Update(_, _)
\* infiles.update((path, None) for path in paths)
Update(infiles, paths) ==
    IF paths = <<>> THEN infiles
    ELSE Update(Put(infiles, Head(paths)), Tail(paths))

\* run_x_to_wif has parsed its command line
Started(inpath, overwrite, files) ==
    [at |-> "collect", inpath |-> inpath, overwrite |-> overwrite, next |-> 1,
     listed |-> <<>>, infiles |-> <<>>, index |-> 1,
     files |-> files, before |-> files,
     reads |-> [stem \in Stems |-> 0], log |-> <<>>]

\* the "for infile in infiles" loop goes to its next pass, or ends
StartPass(c) ==
    [c EXCEPT !.at = IF c.index > Len(c.infiles) THEN "done" ELSE "loop"]

\* a pass of the loop ends (continue, or the end of the body) with result
EndPass(c, result) ==
    StartPass([c EXCEPT !.log = Append(@, [file |-> c.infiles[c.index],
                                           result |-> result]),
                        !.index = @ + 1])

----------------------------------------------------------------------------
(* read_wpo.  The binary stream is a sequence of bytes (0..255).  The      *)
(* record w is the state of one call of read_wpo: the stream (bytes), the  *)
(* number of bytes f.read has delivered (pos), the running read_bytes call *)
(* (want bytes asked for, data collected so far), the part of the layout   *)
(* being read (phase), the number of items the running sequence still      *)
(* holds (left, None before its length prefix is read), the items read so  *)
(* far (items) with the bytes each came from (runs), the header values     *)
(* (hdr) and the tables read (threading ... color_table).                  *)

\* The required value of the first byte
WPO_ID == 123

\* FileTypes, an IntEnum; "file_type_int not in FileTypes" is modelled as
\* Python 3.12 evaluates it (an older Python raises TypeError for every int)
LIFTPLAN == 100

SINGLE_TREADLING == 101

MULTIPLE_TREADLING == 102

FileTypes == {LIFTPLAN, SINGLE_TREADLING, MULTIPLE_TREADLING}

ErrEOF == "EOFError: File too short [read_wpo]"

ErrWpoId == "RuntimeError: ID code != WPO_ID [read_wpo]"

ErrFileType == "RuntimeError: Unknown file_type_int [read_wpo]"

ErrBitsPerMask == "RuntimeError: bits_per_mask < 1 [read_wpo]"

ErrZeroDivision == "ZeroDivisionError: division by zero [read_wpo]"

\* the calls of the header in order: read_int (int) or read_bytes, with num_bytes
HeaderFields ==
    <<[name |-> "id_code", size |-> 1, int |-> TRUE],
      [name |-> "file_version", size |-> 1, int |-> TRUE],
      [name |-> "file_type", size |-> 1, int |-> TRUE],
      [name |-> "zoom", size |-> 1, int |-> FALSE],
      [name |-> "num_shafts", size |-> 1, int |-> TRUE],
      [name |-> "num_treadles", size |-> 1, int |-> TRUE],
      [name |-> "a", size |-> 1, int |-> FALSE],
      [name |-> "is_rising_shed", size |-> 1, int |-> TRUE],
      [name |-> "b", size |-> 1, int |-> FALSE],
      [name |-> "epi", size |-> 1, int |-> TRUE],
      [name |-> "ppi", size |-> 1, int |-> TRUE],
      [name |-> "e-f", size |-> 2, int |-> FALSE],
      [name |-> "num_ends", size |-> 2, int |-> TRUE],
      [name |-> "num_picks", size |-> 2, int |-> TRUE],
      [name |-> "g-m", size |-> 7, int |-> FALSE]>>

RECURSIVE FromBytesBig(_)
\* int.from_bytes(data, byteorder="big")
FromBytesBig(data) ==
    IF data = <<>> THEN 0
    ELSE 256 * FromBytesBig(SubSeq(data, 1, Len(data) - 1)) + data[Len(data)]

RECURSIVE FromBytesLittle(_)
\* int.from_bytes(data, byteorder="little")
FromBytesLittle(data) ==
    IF data = <<>> THEN 0 ELSE Head(data) + 256 * FromBytesLittle(Tail(data))

RECURSIVE OneBits(_, _)
\* {i + 1 for i, char in enumerate(reversed(bin(mask)[2:])) if char == "1"},
\* counting from i
OneBits(mask, i) ==
    IF mask = 0 THEN {}
    ELSE (IF mask % 2 = 1 THEN {i + 1} ELSE {}) \cup OneBits(mask \div 2, i + 1)

mask_to_int_set_ZeroBased(mask) == {i - 1 : i \in OneBits(mask, 0)}

mask_to_int_set(mask) == OneBits(mask, 0)

\* for num_bits >= 1, which read_bitmask_sequence has checked
num_bytes_for_bits(num_bits) == (num_bits - 1) \div 8 + 1

\* the phases that read_dict_of_int reads
IsDictOfInt(w) ==
    \/ w.phase \in {"threading", "warp_colors", "weft_colors"}
    \/ w.phase = "treadling" /\ w.hdr["file_type"] = SINGLE_TREADLING

\* the phases that read_bitmask_sequence reads
IsBitmaskSequence(w) ==
    \/ w.phase \in {"liftplan", "tieup"}
    \/ w.phase = "treadling" /\ w.hdr["file_type"] = MULTIPLE_TREADLING

\* bits_per_mask of the call of read_bitmask_sequence for the phase
BitsPerMask(w) ==
    IF w.phase = "treadling" THEN w.hdr["num_treadles"] ELSE w.hdr["num_shafts"]

\* num_bytes of the read of one item of the running sequence
ItemSize(w) ==
    IF w.phase = "color_table" THEN 3
    ELSE IF IsBitmaskSequence(w) THEN num_bytes_for_bits(BitsPerMask(w))
    ELSE 1

\* the value one item's bytes are read as
ItemValue(w, data) ==
    IF w.phase = "color_table" THEN data
    ELSE IF IsBitmaskSequence(w) THEN mask_to_int_set(FromBytesLittle(data))
    ELSE FromBytesBig(data)

Following_NoGrids(w) ==
    CASE w.phase = "header" -> "threading"
      [] w.phase = "threading" -> "warp_colors"
      [] w.phase = "warp_colors" -> "weft_colors"
      [] w.phase = "weft_colors" ->
            IF w.hdr["file_type"] = LIFTPLAN THEN "liftplan" ELSE "tieup"
      [] w.phase = "liftplan" -> "color_table"
      [] w.phase = "tieup" -> "treadling"
      [] w.phase = "treadling" -> "color_table"
      [] OTHER -> "construct"

\* the part of the layout read after phase
Following(w) ==
    CASE w.phase = "header" -> "threading"
      [] w.phase = "threading" -> "warp_colors"
      [] w.phase = "warp_colors" -> "weft_colors"
      [] w.phase = "weft_colors" ->
            IF w.hdr["file_type"] = LIFTPLAN THEN "liftplan" ELSE "tieup"
      [] w.phase = "liftplan" -> "grids"
      [] w.phase = "tieup" -> "treadling"
      [] w.phase = "treadling" -> "grids"
      [] w.phase = "grids" -> "color_table"
      [] OTHER -> "construct"

\* {i + 1: item for i, item in enumerate(items)}
Enumerated(items) == [i \in DOMAIN items |-> [k |-> i, v |-> items[i]]]

\* the running sequence is complete: its dict is kept under the phase's name
Keep(w) ==
    LET d == Enumerated(w.items)
    IN CASE w.phase = "threading" -> [w EXCEPT !.threading = d]
         [] w.phase = "warp_colors" -> [w EXCEPT !.warp_colors = d]
         [] w.phase = "weft_colors" -> [w EXCEPT !.weft_colors = d]
         [] w.phase = "liftplan" -> [w EXCEPT !.liftplan = d]
         [] w.phase = "tieup" -> [w EXCEPT !.tieup = d]
         [] w.phase = "treadling" -> [w EXCEPT !.treadling = d]
         [] w.phase = "color_table" -> [w EXCEPT !.color_table = d]
         [] OTHER -> w

RECURSIVE Enter(_)
\* read_wpo goes on to the part after w.phase: what it checks and the first
\* read_bytes call it makes there
Enter(w) ==
    LET n == [w EXCEPT !.phase = Following(w), !.want = 0, !.data = <<>>,
                       !.left = None, !.items = <<>>, !.runs = <<>>]
    IN IF n.phase = "construct" THEN n
       ELSE IF n.phase = "grids" THEN [n EXCEPT !.want = 66]
       ELSE IF n.phase = "color_table" THEN [n EXCEPT !.want = 1]
       ELSE IF IsBitmaskSequence(n) /\ BitsPerMask(n) < 1
       THEN [n EXCEPT !.raised = ErrBitsPerMask]
       ELSE IF n.phase = "tieup"
       THEN IF n.hdr["num_treadles"] = 0 THEN Enter(Keep(n))
            ELSE [n EXCEPT !.left = Some(n.hdr["num_treadles"]),
                           !.want = ItemSize(n)]
       ELSE [n EXCEPT !.want = 2]

\* a read_bytes call of a sequence has returned data: the length prefix, or
\* one item
Consumed(w) ==
    IF w.left = None
    THEN LET count == FromBytesBig(w.data)
         IN IF count = 0 THEN Enter(Keep(w))
            ELSE [w EXCEPT !.left = Some(count), !.want = ItemSize(w),
                           !.data = <<>>]
    ELSE LET n == [w EXCEPT !.items = Append(@, ItemValue(w, w.data)),
                            !.runs = Append(@, w.data),
                            !.left = Some(w.left[1] - 1), !.data = <<>>]
         IN IF n.left = Some(0) THEN Enter(Keep(n)) ELSE n

\* a read_int or read_bytes call of the header has returned data
HeaderConsumed(w) ==
    LET field == HeaderFields[w.field]
        value == IF field.int THEN FromBytesBig(w.data) ELSE 0
        n == [w EXCEPT !.hdr[field.name] = value, !.data = <<>>]
    IN IF field.name = "id_code" /\ value # WPO_ID
       THEN [n EXCEPT !.raised = ErrWpoId]
       ELSE IF field.name = "file_type" /\ value \notin FileTypes
       THEN [n EXCEPT !.raised = ErrFileType]
       ELSE IF w.field = Len(HeaderFields) THEN Enter(n)
       ELSE [n EXCEPT !.field = w.field + 1,
                      !.want = HeaderFields[w.field + 1].size]

Delivered_ShortAtEOF(w, k) ==
    IF k = 0 THEN [w EXCEPT !.want = Len(w.data)]
    ELSE [w EXCEPT !.data = @ \o SubSeq(w.bytes, w.pos + 1, w.pos + k),
                   !.pos = @ + k]

\* one pass of the loop of read_bytes: f.read returned k bytes, 0 at the end
\* of the stream
Delivered(w, k) ==
    IF k = 0 THEN [w EXCEPT !.raised = ErrEOF]
    ELSE [w EXCEPT !.data = @ \o SubSeq(w.bytes, w.pos + 1, w.pos + k),
                   !.pos = @ + k]

\* read_wpo(f, filename) has been called and makes its first read_int call
Opened(bytes) ==
    [bytes |-> bytes, pos |-> 0, want |-> 1, data |-> <<>>,
     phase |-> "header", field |-> 1, left |-> None, items |-> <<>>,
     runs |-> <<>>,
     hdr |-> [n \in {HeaderFields[i].name : i \in DOMAIN HeaderFields} |-> 0],
     threading |-> <<>>, warp_colors |-> <<>>, weft_colors |-> <<>>,
     liftplan |-> <<>>, tieup |-> <<>>, treadling |-> <<>>,
     color_table |-> <<>>, raised |-> NoError]

Singletons_PlusOne(d) == [i \in DOMAIN d |-> [k |-> d[i].k, v |-> {d[i].v + 1}]]

\* {key: set([value]) for key, value in d.items()}
Singletons(d) == [i \in DOMAIN d |-> [k |-> d[i].k, v |-> {d[i].v}]]

\* {key: value + 1 for key, value in d.items()}
PlusOne(d) == [i \in DOMAIN d |-> [k |-> d[i].k, v |-> d[i].v + 1]]

\* d.get(len(d))
GetLast(d) ==
    IF \E i \in DOMAIN d : d[i].k = Len(d) THEN Some(Get(d, Len(d))) ELSE None

\* WarpWeftData(threads=..., color=..., spacing=1 / per_inch, units="inches");
\* the spacing in thousandths, exact for the per_inch values explored
WpoAxis(threads, color, per_inch) ==
    [threads |-> threads, color |-> color, color_rgb |-> None,
     spacing |-> Some(1000 \div per_inch), thickness |-> None,
     units |-> Some(<<"inches">>)]

\* the filename argument of read_wpo
WpoFilename == <<"w", ".", "w", "p", "o">>

\* the arguments read_wpo hands to PatternData
WpoArgs(w) ==
    LET warp_colors == PlusOne(w.warp_colors)
        weft_colors == PlusOne(w.weft_colors)
    IN [name |-> WpoFilename,
        threading |-> Singletons(w.threading),
        tieup |-> w.tieup,
        treadling |-> IF w.hdr["file_type"] = SINGLE_TREADLING
                      THEN Singletons(w.treadling) ELSE w.treadling,
        liftplan |-> w.liftplan,
        color_table |-> w.color_table,
        warp |-> WpoAxis(w.hdr["num_ends"], GetLast(warp_colors), w.hdr["epi"]),
        weft |-> WpoAxis(w.hdr["num_picks"], GetLast(weft_colors), w.hdr["ppi"]),
        warp_colors |-> warp_colors, warp_spacing |-> <<>>,
        warp_thickness |-> <<>>,
        weft_colors |-> weft_colors, weft_spacing |-> <<>>,
        weft_thickness |-> <<>>,
        color_range |-> IF w.hdr["file_version"] >= 4 THEN Some(<<0, 255>>)
                        ELSE Some(<<0, 63>>),
        is_rising_shed |-> w.hdr["is_rising_shed"] = 0,
        source_program |-> <<"WeavePoint">>,
        source_version |-> StrInt(w.hdr["file_version"]),
        num_shafts |-> w.hdr["num_shafts"],
        num_treadles |-> w.hdr["num_treadles"]]

----------------------------------------------------------------------------
(* Bounds of the explored inputs *)

MaxShaft == 2

MaxTreadle == 2

MaxDeclared == 2

MaxColors == 2

\* the longest description of a DTX file
MaxNameLen == 5

\* the longest list of masks of a shed table of a WPO file
MaxMasks == 2

\* the largest on-disk shaft value of a threading byte of a WPO file
MaxDiskShaft == 2

\* the largest number of paths on the command line
MaxArgs == 2

----------------------------------------------------------------------------
(* Constructor arguments *)

\* all dicts with at most n entries, keys from K (distinct), values from V
Dicts(K, V, n) ==
    UNION {{d \in [1..m -> [k : K, v : V]] :
               \A i, j \in 1..m : i # j => d[i].k # d[j].k} : m \in 0..n}

\* WarpWeftData() with every field at its default
DefaultWarpWeft ==
    [threads |-> 0, color |-> None, color_rgb |-> None,
     spacing |-> None, thickness |-> None, units |-> None]

\* the dataclass defaults of PatternData, with empty dicts for the required fields
DefaultArgs ==
    [threading |-> <<>>, tieup |-> <<>>, treadling |-> <<>>, liftplan |-> <<>>,
     color_table |-> <<>>, warp |-> DefaultWarpWeft, weft |-> DefaultWarpWeft,
     warp_colors |-> <<>>, warp_spacing |-> <<>>, warp_thickness |-> <<>>,
     weft_colors |-> <<>>, weft_spacing |-> <<>>, weft_thickness |-> <<>>,
     color_range |-> None, num_shafts |-> 0, num_treadles |-> 0,
     name |-> <<"w">>, is_rising_shed |-> TRUE,
     source_program |-> <<"?">>, source_version |-> <<"?">>]

\* shaft sets: nothing, the "no shaft" 0, one shaft, 0 beside a shaft, two shafts
ShaftSets ==
    {{}, {0}} \cup {{i} : i \in 1..MaxShaft}
              \cup {{0, MaxShaft}, {1, MaxShaft}}

TreadleSets ==
    {{}, {0}} \cup {{i} : i \in 1..MaxTreadle}
              \cup {{0, MaxTreadle}, {1, MaxTreadle}}

OneColorTable == <<[k |-> 1, v |-> <<0, 0, 0>>]>>

\* inputs that vary threading, tieup, treadling, liftplan and the declared
\* counts, with a one-color table and the range (0, 255)
ShedArgs ==
    {[DefaultArgs EXCEPT !.threading = th, !.tieup = tu, !.treadling = tr,
                         !.liftplan = lp, !.num_shafts = ns, !.num_treadles = nt,
                         !.color_table = OneColorTable,
                         !.color_range = Some(<<0, 255>>)] :
        th \in Dicts({1}, {{0}} \cup {{i} : i \in 1..MaxShaft}, 1),
        tu \in Dicts(1..MaxTreadle, ShaftSets, 1),
        tr \in Dicts({1}, TreadleSets \ {{}}, 1),
        lp \in Dicts({1}, ShaftSets \ {{}}, 1),
        ns \in 0..MaxDeclared, nt \in 0..MaxDeclared}

\* inputs with no color fields at all: threading and liftplan only
BareArgs ==
    {[DefaultArgs EXCEPT !.threading = th, !.liftplan = lp,
                         !.num_shafts = ns, !.num_treadles = nt] :
        th \in Dicts(1..2, {{0}} \cup {{i} : i \in 1..MaxShaft}, 2),
        lp \in Dicts({1}, ShaftSets, 1),
        ns \in 0..MaxDeclared, nt \in 0..MaxDeclared}

\* Scenario A: liftplan only, no color table
ScenarioA ==
    [DefaultArgs EXCEPT
        !.threading = <<[k |-> 1, v |-> {2}], [k |-> 2, v |-> {3}]>>,
        !.liftplan = <<[k |-> 1, v |-> {1, 3}]>>]

\* Scenario B: single-treadle tieup and treadling
ScenarioB ==
    [DefaultArgs EXCEPT
        !.threading = <<[k |-> 1, v |-> {1}]>>,
        !.tieup = <<[k |-> 1, v |-> {1, 3}], [k |-> 2, v |-> {2, 4}]>>,
        !.treadling = <<[k |-> 1, v |-> {1}], [k |-> 2, v |-> {2}]>>,
        !.color_table = OneColorTable, !.color_range = Some(<<0, 255>>)]

\* Scenario C: treadling references treadle 5, tieup defines treadles 1..4
ScenarioC(num_treadles) ==
    [DefaultArgs EXCEPT
        !.threading = <<[k |-> 1, v |-> {1}]>>,
        !.tieup = [i \in 1..4 |-> [k |-> i, v |-> {i}]],
        !.treadling = <<[k |-> 1, v |-> {1}], [k |-> 2, v |-> {5}]>>,
        !.num_treadles = num_treadles,
        !.color_table = OneColorTable, !.color_range = Some(<<0, 255>>)]

\* Scenario D: channel 300 with range (0, 255)
ScenarioD ==
    [ScenarioA EXCEPT
        !.color_table = <<[k |-> 1, v |-> <<0, 0, 0>>],
                          [k |-> 2, v |-> <<300, 0, 0>>]>>,
        !.color_range = Some(<<0, 255>>)]

\* a tieup whose keys are sparse: treadles 1 and 5 only
SparseTieup ==
    [ScenarioB EXCEPT
        !.tieup = <<[k |-> 1, v |-> {1}], [k |-> 5, v |-> {2}]>>]

ScenarioArgs ==
    {ScenarioA, ScenarioB, ScenarioD, SparseTieup}
        \cup {ScenarioC(n) : n \in {0, 4, 5}}

\* (r, g, b) tuples: inside (0, 255), above it, below it
RGBs == {<<0, 0, 0>>, <<0, 255, 63>>, <<300, 0, 0>>, <<0, -1, 0>>}

\* color_range values: unset, wrong length, min >= max, valid
ColorRanges ==
    {None, Some(<<>>), Some(<<0>>), Some(<<0, 255, 0>>), Some(<<255, 0>>),
     Some(<<0, 0>>), Some(<<0, 255>>), Some(<<0, 63>>)}

\* inputs that vary the color fields of a valid liftplan draft
ColorArgs ==
    {[ScenarioA EXCEPT !.color_table = ct, !.color_range = cr,
                       !.warp_colors = wc, !.weft_colors = fc,
                       !.warp.color = c] :
        ct \in Dicts(1..MaxColors, RGBs, 2),
        cr \in ColorRanges,
        wc \in Dicts({1}, 0..(MaxColors + 1), 1),
        fc \in Dicts({2}, {1, MaxColors + 1}, 1),
        c \in {None, Some(0), Some(1), Some(MaxColors + 1)}}

\* value sets of a shed dict: the "no shaft" 0 alone, 0 beside a shaft
ZeroSets == {{0}, {0, MaxShaft}}

\* inputs whose shed dicts are unsorted and hold {0} entries and sets with 0
\* beside another index
CleanShedArgs ==
    {[ScenarioB EXCEPT !.threading = th, !.tieup = tu, !.treadling = tr,
                       !.liftplan = lp] :
        th \in Dicts(1..2, ZeroSets, 2), tu \in Dicts(1..2, ZeroSets, 2),
        tr \in Dicts(1..2, {{0}, {0, 1}}, 2), lp \in Dicts({3}, ZeroSets, 1)}

\* spacings and thicknesses in thousandths
Floats == {53, 212}

\* inputs whose per-thread color, spacing and thickness dicts are unsorted
\* and hold entries equal to the axis default
CleanMapArgs ==
    {[ScenarioB EXCEPT !.warp_colors = wc, !.warp.color = c,
                       !.warp_spacing = ws, !.warp.spacing = sp,
                       !.weft_thickness = ft, !.weft.thickness = t] :
        wc \in Dicts(1..2, {1}, 2), c \in {None, Some(1)},
        ws \in Dicts(1..2, Floats, 2), sp \in {None, Some(212)},
        ft \in Dicts(1..2, {212}, 2), t \in {None, Some(212)}}

\* a dict that is empty or holds the one entry 2: v
Maybe(v) == {<<>>, <<[k |-> 2, v |-> v]>>}

\* drafts for write_wif in which each optional section is present or absent
SectionArgs ==
    {[ScenarioB EXCEPT !.tieup = IF tt THEN @ ELSE <<>>,
                       !.treadling = IF tt THEN @ ELSE <<>>,
                       !.liftplan = lp,
                       !.warp_colors = wc, !.weft_colors = fc,
                       !.warp_spacing = ws, !.weft_spacing = fs,
                       !.warp_thickness = wt, !.weft_thickness = ft] :
        tt \in BOOLEAN, lp \in Maybe({1, 2}),
        wc \in Maybe(1), fc \in Maybe(1), ws \in Maybe(212), fs \in Maybe(53),
        wt \in Maybe(1000), ft \in Maybe(25)}

\* color tables for write_wif: good ones, a channel above 255, a channel
\* below 0 in the second entry, a color of two components
WriterColorTables ==
    {OneColorTable,
     <<[k |-> 1, v |-> <<0, 0, 0>>], [k |-> 2, v |-> <<0, 255, 63>>]>>,
     <<[k |-> 1, v |-> <<0, 0, 300>>]>>,
     <<[k |-> 1, v |-> <<0, 0, 0>>], [k |-> 2, v |-> <<0, -1, 0>>]>>,
     <<[k |-> 1, v |-> <<0, 0>>]>>}

\* drafts for write_wif that vary the default colors and the color table
ColorEntryArgs ==
    {[ScenarioB EXCEPT !.warp.color = c, !.warp.color_rgb = rgb,
                       !.weft.color_rgb = frgb, !.weft.color = Some(1),
                       !.weft.spacing = Some(212),
                       !.weft.units = Some(<<"centimeters">>),
                       !.color_table = ct, !.color_range = Some(cr)] :
        c \in {None, Some(1)}, rgb \in {None, Some(<<0, 255, 63>>)},
        frgb \in {None, Some(<<1, 2, 3>>)},
        ct \in WriterColorTables, cr \in {<<0, 255>>, <<-1, 300>>}}

\* inputs that break several checks at once: the shed (both tables, none,
\* a treadle beyond the tieup), the threading, the colors per thread, the
\* color table and the color range
SeveralFaultsArgs ==
    {[ScenarioB EXCEPT !.threading = th, !.tieup = shed[1], !.treadling = shed[2],
                       !.warp_colors = wc, !.warp.color = c,
                       !.color_table = ct, !.color_range = cr] :
        th \in {<<>>, ScenarioB.threading},
        shed \in {<<ScenarioB.tieup, ScenarioB.treadling>>, <<<<>>, <<>>>>,
                  <<ScenarioB.tieup, ScenarioC(0).treadling>>},
        wc \in {<<>>, <<[k |-> 1, v |-> 1]>>, <<[k |-> 1, v |-> MaxColors + 1]>>},
        c \in {None, Some(MaxColors + 1)},
        ct \in {<<>>, OneColorTable, ScenarioD.color_table,
                <<[k |-> 2, v |-> <<0, 0, 0>>]>>},
        cr \in {None, Some(<<0>>), Some(<<0, 0>>), Some(<<0, 255>>)}}

\* a DTX file with every section but the liftplan and the per-thread ones
DtxBase ==
    [leading |-> <<>>,
     description |-> Some(<<"w">>),
     imprint |-> Some(<<<<"Fiberworks">>, <<"4", ".", "2", ".", "1">>>>),
     ends |-> Some(2), picks |-> Some(2), shafts |-> Some(2), treadles |-> Some(2),
     threading |-> Some(<<1, 2>>),
     tieup |-> Some(<<<<0, 1>>, <<1, 0>>>>),
     treadling |-> Some(<<<<1>>, <<2>>>>),
     liftplan |-> None,
     color_table |-> Some(<<<<0, 0, 0>>, <<255, 255, 255>>>>),
     warp_colors |-> None, weft_colors |-> None,
     warp_spacing |-> None, weft_spacing |-> None]

\* the first line of a description section: not empty, and not starting
\* with "%%", which would make it metadata
Names ==
    {n \in UNION {[1..m -> {"w", "%"}] : m \in 1..MaxNameLen} :
        ~(Len(n) >= 2 /\ n[1] = "%" /\ n[2] = "%")}

DtxNameInputs ==
    {[DtxBase EXCEPT !.description = d] : d \in {None} \cup {Some(n) : n \in Names}}

\* imprint lines: none, one word, versions of one to three parts, a "%"
Imprints ==
    {None, Some(<<<<"Fiberworks">>>>)}
        \cup {Some(<<<<"Fiberworks">>, v>>) :
                 v \in {<<"4">>, <<"4", ".", "2">>, <<"4", ".", "2", ".", "1">>,
                        <<"4", "%">>}}

DtxInfoInputs ==
    {[DtxBase EXCEPT !.imprint = i, !.ends = e, !.picks = e,
                     !.shafts = n, !.treadles = n] :
        i \in Imprints, e \in {None, Some(0), Some(3)}, n \in {None, Some(3)}}

\* all lists of at most n elements of S
Lists(S, n) == UNION {[1..m -> S] : m \in 0..n}

DtxShedInputs ==
    {[DtxBase EXCEPT !.threading = th, !.tieup = tu, !.treadling = tr,
                     !.liftplan = lp] :
        th \in {None} \cup {Some(l) : l \in Lists(0..MaxShaft, 2)},
        tu \in {None, Some(<<>>), Some(<<<<0, 1>>, <<1, 0>>>>),
                Some(<<<<0, 0>>, <<1, 1>>>>)},
        tr \in {None, Some(<<<<1>>, <<2>>>>), Some(<<<<0>>, <<1, 2>>>>),
                Some(<<<<0, 2>>>>)},
        lp \in {None, Some(<<<<1, 0>>, <<0, 0>>, <<1, 1>>>>)}}

DtxColorInputs ==
    {[DtxBase EXCEPT !.color_table = ct, !.warp_colors = wc, !.weft_colors = fc,
                     !.warp_spacing = ws, !.weft_spacing = fs] :
        ct \in {None, Some(<<>>), Some(<<<<0, 0, 0>>>>),
                Some(<<<<0, 0, 0>>, <<255, 255, 255>>>>), Some(<<<<0, 0>>>>),
                Some(<<<<0, 0, 256>>>>)},
        wc \in {None, Some(<<>>), Some(<<0, 1>>), Some(<<1, 1>>), Some(<<0, 2>>)},
        fc \in {None, Some(<<1, 0>>)},
        ws \in {None, Some(<<4, 3>>), Some(<<4, 4>>), Some(<<0, 7>>)},
        fs \in {None, Some(<<5>>)}}

\* files with non-blank lines before the first "@@" line
DtxLeadingInputs ==
    {[DtxBase EXCEPT !.leading = l, !.color_table = ct] :
        l \in {<<"x">>, <<"1", "x">>}, ct \in {None, DtxBase.color_table}}

----------------------------------------------------------------------------
(* WIF files *)

\* everything write_wif writes for data
WifTextOf(data) ==
    HeaderLines(data) \o ColorLines(data) \o SpacingThicknessLines(data)
        \o ThreadingLines(data) \o ShedLines(data) \o WeavingLines(data)
        \o WarpWeftLines(data) \o ColorTableLines(data)
        \o ColorPaletteLines(data)

\* the name of the section that line i of lines stands in
SectionAt(lines, i) ==
    LET before == {h \in HeaderIndices(lines) : h <= i}
    IN IF before = {} THEN "" ELSE lines[MaxOf(before)].header

\* lines without the sections named in names and without the entries whose
\* key is in keys
Without(lines, names, keys) ==
    LET idx == SortedSeq({i \in DOMAIN lines :
                            /\ SectionAt(lines, i) \notin names
                            /\ ~(lines[i].header = "" /\ lines[i].key \in keys)})
    IN [j \in DOMAIN idx |-> lines[idx[j]]]

\* drafts whose WIF text the files below are cut from
WifFileArgs ==
    {[ScenarioB EXCEPT !.warp_colors = wc, !.weft_colors = fc,
                       !.warp.color = c, !.liftplan = lp] :
        wc \in Maybe(1), fc \in Maybe(1), c \in {None, Some(1)},
        lp \in Maybe({1, 2})}

----------------------------------------------------------------------------
(* WPO files *)

RECURSIVE Flat(_)
\* the bytes of a list of byte runs
Flat(runs) == IF runs = <<>> THEN <<>> ELSE Head(runs) \o Flat(Tail(runs))

\* the two bytes of a length, MSB first
TwoBytes(n) == <<n \div 256, n % 256>>

\* the 24 bytes of a WPO header
WpoHeader(h) ==
    <<h.id_code, h.file_version, h.file_type, 10, h.num_shafts, h.num_treadles,
      0, h.is_rising_shed, 0, h.epi, h.ppi, 0, 0>>
        \o TwoBytes(h.num_ends) \o TwoBytes(h.num_picks) \o <<0, 0, 0, 0, 0, 0, 0>>

\* a table of byte runs behind its two-byte length
Prefixed(runs) == TwoBytes(Len(runs)) \o Flat(runs)

\* the translation grids: 66 bytes
Grids == [i \in 1..66 |-> 200]

\* a color table: its one-byte length and three bytes per color
WpoColors(rgbs) == <<Len(rgbs)>> \o Flat(rgbs)

\* the bytes of a WPO file of the parts p
WpoFile(p) ==
    WpoHeader(p.hdr) \o Prefixed(p.threading) \o Prefixed(p.warp_colors)
        \o Prefixed(p.weft_colors) \o p.shed \o Grids \o WpoColors(p.colors)

\* header values of a draft of 2 ends and 2 picks on 4 shafts and 2 treadles
WpoBaseHdr ==
    [id_code |-> WPO_ID, file_version |-> 7, file_type |-> SINGLE_TREADLING,
     num_shafts |-> 4, num_treadles |-> 2, is_rising_shed |-> 0,
     epi |-> 10, ppi |-> 8, num_ends |-> 2, num_picks |-> 2]

\* the parts of a small single-treadling file
WpoBase ==
    [hdr |-> WpoBaseHdr,
     threading |-> <<<<1>>, <<2>>>>,
     warp_colors |-> <<<<0>>, <<1>>>>,
     weft_colors |-> <<<<1>>>>,
     shed |-> <<1, 2>> \o Prefixed(<<<<1>>, <<2>>>>),
     colors |-> <<<<0, 0, 0>>, <<255, 128, 1>>>>]

\* masks of one byte: none, 0b00001011, bits 1 and 8
Masks1 == {<<0>>, <<11>>, <<129>>}

\* masks of two bytes, least significant byte first
Masks2 == {<<11, 0>>, <<0, 1>>, <<129, 1>>}

\* the same draft as a liftplan file and as a multiple-treadling file
WpoLiftplanBase ==
    [WpoBase EXCEPT !.hdr.file_type = LIFTPLAN,
                    !.shed = Prefixed(<<<<1>>, <<11>>>>)]

WpoMultiBase ==
    [WpoBase EXCEPT !.hdr.file_type = MULTIPLE_TREADLING,
                    !.shed = <<1, 2>> \o Prefixed(<<<<1>>, <<3>>>>)]

\* files of the three types that vary the shed tables
WpoShedFiles ==
    {WpoFile([WpoLiftplanBase EXCEPT !.shed = Prefixed(masks)]) :
        masks \in Lists(Masks1, MaxMasks)}
    \cup
    {WpoFile([WpoLiftplanBase EXCEPT !.hdr.num_shafts = 9,
                                     !.shed = Prefixed(masks)]) :
        masks \in Lists(Masks2, MaxMasks)}
    \cup
    {WpoFile([WpoMultiBase EXCEPT !.hdr.num_treadles = Len(tieup),
                                  !.shed = Flat(tieup) \o Prefixed(treadling)]) :
        tieup \in Lists({<<1>>, <<10>>}, MaxMasks),
        treadling \in Lists({<<0>>, <<1>>, <<3>>}, MaxMasks)}
    \cup
    {WpoFile([WpoBase EXCEPT !.hdr.num_treadles = Len(tieup),
                             !.shed = Flat(tieup) \o Prefixed(treadling)]) :
        tieup \in Lists({<<1>>, <<10>>}, MaxMasks),
        treadling \in Lists({<<0>>, <<1>>, <<2>>}, MaxMasks)}

\* files that vary the threading, the color lists and the color table
WpoTableFiles ==
    {WpoFile([WpoBase EXCEPT !.threading = th, !.warp_colors = wc,
                             !.weft_colors = fc, !.colors = ct]) :
        th \in Lists({<<b>> : b \in 0..MaxDiskShaft}, 2),
        wc \in {<<>>, <<<<0>>, <<1>>>>, <<<<1>>, <<0>>>>, <<<<2>>>>},
        fc \in {<<>>, <<<<1>>>>},
        ct \in {<<>>, <<<<0, 0, 0>>>>, <<<<0, 0, 0>>, <<255, 128, 1>>>>}}

\* files that vary the header
WpoHeaderFiles ==
    {WpoFile([WpoBase EXCEPT !.hdr.id_code = id, !.hdr.file_version = v,
                             !.hdr.file_type = t]) :
        id \in {WPO_ID, 122}, v \in {3, 4, 7, 8}, t \in 99..103}
    \cup
    {WpoFile([WpoBase EXCEPT !.hdr.num_shafts = s, !.hdr.num_treadles = t,
                             !.hdr.is_rising_shed = r, !.hdr.file_type = ft]) :
        s \in {0, 4}, t \in {0, 2}, r \in {0, 1}, ft \in FileTypes}
    \cup
    {WpoFile([WpoBase EXCEPT !.hdr.epi = e, !.hdr.ppi = p,
                             !.hdr.num_ends = n, !.hdr.num_picks = n]) :
        e \in {0, 10}, p \in {0, 8}, n \in {0, 2, 300}}

\* every file of the first i bytes of a file of each type, and a file with
\* bytes after its color table
WpoShortFiles ==
    UNION {{SubSeq(WpoFile(p), 1, i) : i \in 0..(Len(WpoFile(p)) - 1)} :
              p \in {WpoBase, WpoLiftplanBase, WpoMultiBase}}
        \cup {WpoFile(WpoBase) \o <<1, 2, 3>>}

----------------------------------------------------------------------------
(* The state machine *)

\* the dataclass-generated __init__ stores the arguments as attributes
Stored(a) ==
    [threading |-> a.threading, tieup |-> a.tieup, treadling |-> a.treadling,
     liftplan |-> a.liftplan, color_table |-> a.color_table,
     warp |-> a.warp, weft |-> a.weft,
     warp_colors |-> a.warp_colors, warp_spacing |-> a.warp_spacing,
     warp_thickness |-> a.warp_thickness,
     weft_colors |-> a.weft_colors, weft_spacing |-> a.weft_spacing,
     weft_thickness |-> a.weft_thickness,
     color_range |-> a.color_range,
     num_shafts |-> a.num_shafts, num_treadles |-> a.num_treadles,
     name |-> a.name, is_rising_shed |-> a.is_rising_shed,
     source_program |-> a.source_program, source_version |-> a.source_version,
     treadling_type |-> Unset, raised |-> NoError]

\* the dataclass fields of a PatternData: what dataclasses.fields() lists,
\* without the attribute treadling_type that __post_init__ adds
FieldsOf(s) ==
    [threading |-> s.threading, tieup |-> s.tieup, treadling |-> s.treadling,
     liftplan |-> s.liftplan, color_table |-> s.color_table,
     warp |-> s.warp, weft |-> s.weft,
     warp_colors |-> s.warp_colors, warp_spacing |-> s.warp_spacing,
     warp_thickness |-> s.warp_thickness,
     weft_colors |-> s.weft_colors, weft_spacing |-> s.weft_spacing,
     weft_thickness |-> s.weft_thickness,
     color_range |-> s.color_range,
     num_shafts |-> s.num_shafts, num_treadles |-> s.num_treadles,
     name |-> s.name, is_rising_shed |-> s.is_rising_shed,
     source_program |-> s.source_program, source_version |-> s.source_version]

\* no second object has been constructed
NoCopy == [raised |-> "not constructed"]

\* the draft was not read from a DTX file
NoDtx == [description |-> "no file"]

\* read_wpo is not running
NoWpo == [phase |-> "no stream"]

\* run_x_to_wif is not running
NoCli == [at |-> "not run"]

\* read_wif(f): the PatternData it returns, or the exception it raises
ReadWifOf_RangeDefaulted(lines) ==
    LET palette == Section(lines, "color_palette")
        weaving == Section(lines, "weaving")
        ranged == Without(lines, {"COLOR PALETTE"}, {})
                    \o <<Header("COLOR PALETTE"),
                         Entry(<<"Range">>, StrInt(0) \o <<",">> \o StrInt(255))>>
    IN IF Duplicates(lines) THEN ReadFailed(ErrConfigParser)
       ELSE IF RenameFails(lines) THEN ReadFailed(ErrInterpolation)
       ELSE IF ProcessError(lines) # NoError THEN ReadFailed(ProcessError(lines))
       ELSE IF AxisError(Section(lines, "warp")) # NoError
       THEN ReadFailed(AxisError(Section(lines, "warp")))
       ELSE IF AxisError(Section(lines, "weft")) # NoError
       THEN ReadFailed(AxisError(Section(lines, "weft")))
       ELSE IF HasOption(palette, "range")
               /\ \E p \in Range(Split(Get(palette, <<"range">>), ",")) : ~IntText(p)
       THEN ReadFailed(ErrIntLiteral)
       ELSE IF HasOption(palette, "range")
               /\ Len(Split(Get(palette, <<"range">>), ",")) # 2
       THEN ReadFailed(ErrPaletteRange)
       ELSE IF ~HasOption(palette, "range")
       THEN PostInitOf(Stored(WifArgs(ranged)))
       ELSE IF HasOption(weaving, "rising shed")
               /\ ~BooleanText(Get(weaving, <<"rising shed">>))
       THEN ReadFailed(ErrNotBoolean)
       ELSE IF \E o \in {"shafts", "treadles"} :
                  HasOption(weaving, o) /\ ~IntText(Get(weaving, <<o>>))
       THEN ReadFailed(ErrIntLiteral)
       ELSE PostInitOf(Stored(WifArgs(lines)))

\* read_wif(f) for the lines of f: what it raises, or the PatternData built
ReadWifOf(lines) ==
    LET palette == Section(lines, "color_palette")
        weaving == Section(lines, "weaving")
    IN IF Duplicates(lines) THEN ReadFailed(ErrConfigParser)
       ELSE IF RenameFails(lines) THEN ReadFailed(ErrInterpolation)
       ELSE IF ProcessError(lines) # NoError THEN ReadFailed(ProcessError(lines))
       ELSE IF AxisError(Section(lines, "warp")) # NoError
       THEN ReadFailed(AxisError(Section(lines, "warp")))
       ELSE IF AxisError(Section(lines, "weft")) # NoError
       THEN ReadFailed(AxisError(Section(lines, "weft")))
       ELSE IF HasOption(palette, "range")
               /\ \E p \in Range(Split(Get(palette, <<"range">>), ",")) : ~IntText(p)
       THEN ReadFailed(ErrIntLiteral)
       ELSE IF HasOption(palette, "range")
               /\ Len(Split(Get(palette, <<"range">>), ",")) # 2
       THEN ReadFailed(ErrPaletteRange)
       ELSE IF ~HasOption(palette, "range") THEN ReadFailed(ErrUnboundColorRange)
       ELSE IF HasOption(weaving, "rising shed")
               /\ ~BooleanText(Get(weaving, <<"rising shed">>))
       THEN ReadFailed(ErrNotBoolean)
       ELSE IF \E o \in {"shafts", "treadles"} :
                  HasOption(weaving, o) /\ ~IntText(Get(weaving, <<o>>))
       THEN ReadFailed(ErrIntLiteral)
       ELSE PostInitOf(Stored(WifArgs(lines)))

Init ==
    /\ \/ args \in ShedArgs
       \/ args \in BareArgs
       \/ args \in ColorArgs
       \/ args \in ScenarioArgs
       \/ args \in CleanShedArgs
       \/ args \in CleanMapArgs
       \/ args \in SeveralFaultsArgs
    /\ self = Stored(args)
    /\ dtx = NoDtx
    /\ copy = NoCopy
    /\ out = <<>>
    /\ decoded = NoCopy
    /\ pc = "post_init"
    /\ wpo = NoWpo
    /\ cli = NoCli

\* PatternData(...) runs __post_init__ to completion or to its first raise
PostInit ==
    /\ pc = "post_init"
    /\ self' = PostInitOf(self)
    /\ pc' = "done"
    /\ UNCHANGED <<wpo, cli, dtx, args, copy, out, decoded>>

\* PatternData(**fields of self): a second construction from a constructed one
Reconstruct ==
    /\ pc = "done"
    /\ self.raised = NoError
    /\ copy' = PostInitOf(Stored(FieldsOf(self)))
    /\ pc' = "copied"
    /\ UNCHANGED <<wpo, cli, dtx, args, self, out, decoded>>

Next == PostInit \/ Reconstruct

Spec == Init /\ [][Next]_vars

\* a DTX file to convert, or the arguments of a PatternData to write
InitWif ==
    /\ \/ /\ \/ dtx \in DtxNameInputs
              \/ dtx \in DtxInfoInputs
              \/ dtx \in DtxShedInputs
              \/ dtx \in DtxColorInputs
              \/ dtx \in DtxLeadingInputs
           /\ args = DefaultArgs
           /\ pc = "read_dtx"
       \/ /\ dtx = NoDtx
           /\ \/ args \in SectionArgs
              \/ args \in ColorEntryArgs
           /\ pc = "post_init"
    /\ self = Stored(args)
    /\ copy = NoCopy
    /\ out = <<>>
    /\ decoded = NoCopy
    /\ wpo = NoWpo
    /\ cli = NoCli

\* read_dtx(f): raises while processing a section, or calls PatternData(...)
ReadDtx ==
    /\ pc = "read_dtx"
    /\ IF DtxError(dtx) # NoError
       THEN /\ self' = Raise(self, DtxError(dtx))
            /\ args' = args
       ELSE /\ args' = DtxArgs(dtx)
            /\ self' = PostInitOf(Stored(DtxArgs(dtx)))
    /\ pc' = "done"
    /\ UNCHANGED <<wpo, cli, dtx, copy, out, decoded>>

\* write_wif(f, data) is called with a constructed PatternData
WriteHeader ==
    /\ pc = "done"
    /\ self.raised = NoError
    /\ out' = out \o HeaderLines(self)
    /\ pc' = "w_colors"
    /\ UNCHANGED <<wpo, cli, dtx, args, self, copy, decoded>>

WriteColors ==
    /\ pc = "w_colors"
    /\ out' = out \o ColorLines(self)
    /\ pc' = "w_spacing"
    /\ UNCHANGED <<wpo, cli, dtx, args, self, copy, decoded>>

WriteSpacingThickness ==
    /\ pc = "w_spacing"
    /\ out' = out \o SpacingThicknessLines(self)
    /\ pc' = "w_threading"
    /\ UNCHANGED <<wpo, cli, dtx, args, self, copy, decoded>>

WriteThreading ==
    /\ pc = "w_threading"
    /\ out' = out \o ThreadingLines(self)
    /\ pc' = "w_shed"
    /\ UNCHANGED <<wpo, cli, dtx, args, self, copy, decoded>>

WriteShed ==
    /\ pc = "w_shed"
    /\ out' = out \o ShedLines(self)
    /\ pc' = "w_weaving"
    /\ UNCHANGED <<wpo, cli, dtx, args, self, copy, decoded>>

WriteWeaving ==
    /\ pc = "w_weaving"
    /\ out' = out \o WeavingLines(self)
    /\ pc' = "w_warp_weft"
    /\ UNCHANGED <<wpo, cli, dtx, args, self, copy, decoded>>

WriteWarpWeft ==
    /\ pc = "w_warp_weft"
    /\ out' = out \o WarpWeftLines(self)
    /\ pc' = "w_color_table"
    /\ UNCHANGED <<wpo, cli, dtx, args, self, copy, decoded>>

\* the [COLOR TABLE] loop: raises at the first bad entry
WriteColorTable ==
    /\ pc = "w_color_table"
    /\ out' = out \o ColorTableLines(self)
    /\ pc' = IF BadColors(self.color_table) = {} THEN "w_color_palette"
             ELSE "write_failed"
    /\ UNCHANGED <<wpo, cli, dtx, args, self, copy, decoded>>

WriteColorPalette ==
    /\ pc = "w_color_palette"
    /\ out' = out \o ColorPaletteLines(self)
    /\ pc' = "written"
    /\ UNCHANGED <<wpo, cli, dtx, args, self, copy, decoded>>

\* read_wif(f) on the text write_wif wrote
ReadWif ==
    /\ pc = "written"
    /\ decoded' = ReadWifOf(out)
    /\ pc' = "read_back"
    /\ UNCHANGED <<wpo, cli, dtx, args, self, copy, out>>

NextWif ==
    \/ ReadDtx
    \/ PostInit
    \/ WriteHeader
    \/ WriteColors
    \/ WriteSpacingThickness
    \/ WriteThreading
    \/ WriteShed
    \/ WriteWeaving
    \/ WriteWarpWeft
    \/ WriteColorTable
    \/ WriteColorPalette
    \/ ReadWif

SpecWif == InitWif /\ [][NextWif]_vars

\* a WPO stream to read
InitWpo ==
    /\ \/ \E file \in WpoShedFiles : wpo = Opened(file)
       \/ \E file \in WpoTableFiles : wpo = Opened(file)
       \/ \E file \in WpoHeaderFiles : wpo = Opened(file)
       \/ \E file \in WpoShortFiles : wpo = Opened(file)
    /\ pc = "read_wpo"
    /\ dtx = NoDtx
    /\ args = DefaultArgs
    /\ self = Stored(args)
    /\ copy = NoCopy
    /\ out = <<>>
    /\ decoded = NoCopy
    /\ cli = NoCli

\* one pass of the loop of read_bytes: f.read(num_bytes - len(data)) returns
\* at least one byte and at most the bytes asked for, or nothing at the end
\* of the stream
read_bytes ==
    /\ pc = "read_wpo"
    /\ wpo.want > Len(wpo.data)
    /\ LET asked == wpo.want - Len(wpo.data)
           rest == Len(wpo.bytes) - wpo.pos
       IN IF rest = 0
          THEN /\ wpo' = Delivered(wpo, 0)
               /\ IF wpo'.raised # NoError
                  THEN self' = Raise(self, wpo'.raised) /\ pc' = "done"
                  ELSE UNCHANGED <<self, pc>>
          ELSE /\ \E k \in 1..(IF asked < rest THEN asked ELSE rest) :
                      wpo' = Delivered(wpo, k)
               /\ UNCHANGED <<self, pc>>
    /\ UNCHANGED <<dtx, args, copy, out, decoded, cli>>

\* the header: id_code ... "ignore g-m"
ReadWpoHeader ==
    /\ pc = "read_wpo"
    /\ wpo.phase = "header"
    /\ wpo.want > 0 /\ Len(wpo.data) = wpo.want
    /\ wpo' = HeaderConsumed(wpo)
    /\ IF wpo'.raised # NoError
       THEN self' = Raise(self, wpo'.raised) /\ pc' = "done"
       ELSE UNCHANGED <<self, pc>>
    /\ UNCHANGED <<dtx, args, copy, out, decoded, cli>>

\* read_dict_of_int: the length or one integer has been read
read_dict_of_int ==
    /\ pc = "read_wpo"
    /\ IsDictOfInt(wpo)
    /\ wpo.want > 0 /\ Len(wpo.data) = wpo.want
    /\ wpo' = Consumed(wpo)
    /\ IF wpo'.raised # NoError
       THEN self' = Raise(self, wpo'.raised) /\ pc' = "done"
       ELSE UNCHANGED <<self, pc>>
    /\ UNCHANGED <<dtx, args, copy, out, decoded, cli>>

\* read_bitmask_sequence: the number of masks or one mask has been read
read_bitmask_sequence ==
    /\ pc = "read_wpo"
    /\ IsBitmaskSequence(wpo)
    /\ wpo.want > 0 /\ Len(wpo.data) = wpo.want
    /\ wpo' = Consumed(wpo)
    /\ UNCHANGED <<self, pc>>
    /\ UNCHANGED <<dtx, args, copy, out, decoded, cli>>

\* read_bytes(f, 66): ignore "translation grids"
SkipGrids ==
    /\ pc = "read_wpo"
    /\ wpo.phase = "grids"
    /\ wpo.want > 0 /\ Len(wpo.data) = wpo.want
    /\ wpo' = Enter(wpo)
    /\ UNCHANGED <<self, pc>>
    /\ UNCHANGED <<dtx, args, copy, out, decoded, cli>>

\* color_table_len and the read_rgb calls
ReadColorTable ==
    /\ pc = "read_wpo"
    /\ wpo.phase = "color_table"
    /\ wpo.want > 0 /\ Len(wpo.data) = wpo.want
    /\ wpo' = Consumed(wpo)
    /\ UNCHANGED <<self, pc>>
    /\ UNCHANGED <<dtx, args, copy, out, decoded, cli>>

\* return PatternData(...): 1 / epi and 1 / ppi are evaluated first
ReturnWpo ==
    /\ pc = "read_wpo"
    /\ wpo.phase = "construct"
    /\ IF wpo.hdr["epi"] = 0 \/ wpo.hdr["ppi"] = 0
       THEN /\ self' = Raise(self, ErrZeroDivision)
            /\ args' = args
       ELSE /\ args' = WpoArgs(wpo)
            /\ self' = PostInitOf(Stored(WpoArgs(wpo)))
    /\ pc' = "done"
    /\ UNCHANGED <<dtx, copy, out, decoded, wpo, cli>>

NextWpo ==
    \/ read_bytes
    \/ ReadWpoHeader
    \/ read_dict_of_int
    \/ read_bitmask_sequence
    \/ SkipGrids
    \/ ReadColorTable
    \/ ReturnWpo

SpecWpo == InitWpo /\ [][NextWpo]_vars

\* WIF files with and without a color palette, its Range entry, a color
\* table, per-thread colors and default colors
WifFiles ==
    {Without(WifTextOf(PostInitOf(Stored(a))), names, keys) :
        a \in WifFileArgs,
        names \in SUBSET {"COLOR PALETTE", "COLOR TABLE", "WARP COLORS",
                          "WEFT COLORS"},
        keys \in SUBSET {<<"Range">>, <<"Color">>}}

\* read_wif(f) is called on a WIF file
InitWifFile ==
    /\ out \in WifFiles
    /\ pc = "read_wif"
    /\ dtx = NoDtx
    /\ args = DefaultArgs
    /\ self = Stored(args)
    /\ copy = NoCopy
    /\ decoded = NoCopy
    /\ wpo = NoWpo
    /\ cli = NoCli

\* read_wif(f) returns or raises
ReadWifFile ==
    /\ pc = "read_wif"
    /\ decoded' = ReadWifOf(out)
    /\ pc' = "wif_read"
    /\ UNCHANGED <<wpo, cli, dtx, args, self, copy, out>>

NextWifFile == ReadWifFile

SpecWifFile == InitWifFile /\ [][NextWifFile]_vars

\* the paths a command line may name: two files, the directory d, and a file
\* of another suffix
CliPaths ==
    {DtxPath("a"), DtxPath("d/x"), [stem |-> "d", suffix |-> ""],
     [stem |-> "a", suffix |-> ".txt"]}

\* run_x_to_wif(".dtx") is called
InitCli ==
    /\ \E inpath \in Lists(CliPaths, MaxArgs) \ {<<>>}, overwrite \in BOOLEAN,
          files \in [Stems -> {"absent", "old"}] :
          cli = Started(inpath, overwrite, files)
    /\ pc = "run_x_to_wif"
    /\ dtx = NoDtx
    /\ args = DefaultArgs
    /\ self = Stored(args)
    /\ copy = NoCopy
    /\ out = <<>>
    /\ decoded = NoCopy
    /\ wpo = NoWpo

\* one pass of "for infilestr in args.inpath"
CollectPath ==
    /\ cli.at = "collect"
    /\ LET inpath == cli.inpath[cli.next]
       IN \E found \in rglob(inpath) :
            LET paths == IF inpath.suffix = Suffix THEN <<inpath>> ELSE found
                c == [cli EXCEPT !.infiles = Update(@, paths),
                                 !.listed = @ \o paths,
                                 !.next = @ + 1]
            IN cli' = IF c.next > Len(c.inpath) THEN StartPass(c) ELSE c
    /\ UNCHANGED <<dtx, args, self, copy, out, decoded, pc, wpo>>

CheckExisting_NeverSkips ==
    /\ cli.at = "loop"
    /\ cli' = [cli EXCEPT !.at = "read"]
    /\ UNCHANGED <<dtx, args, self, copy, out, decoded, pc, wpo>>

\* "if outfile.exists():" skips the file, or goes on to convert it
CheckExisting ==
    /\ cli.at = "loop"
    /\ LET outfile == with_suffix(cli.infiles[cli.index], ".wif")
       IN cli' = IF cli.files[outfile.stem] # "absent" /\ ~cli.overwrite
                 THEN EndPass(cli, "skipped")
                 ELSE [cli EXCEPT !.at = "read"]
    /\ UNCHANGED <<dtx, args, self, copy, out, decoded, pc, wpo>>

CallReader_StopsAtFailure ==
    /\ cli.at = "read"
    /\ \E returned \in BOOLEAN :
          LET c == [cli EXCEPT !.reads[cli.infiles[cli.index].stem] = @ + 1]
          IN cli' = IF returned THEN [c EXCEPT !.at = "open"]
                    ELSE [EndPass(c, "failed") EXCEPT !.at = "done"]
    /\ UNCHANGED <<dtx, args, self, copy, out, decoded, pc, wpo>>

\* open(infile) and the reader: the reader returns a PatternData, or an
\* Exception is raised and caught
CallReader ==
    /\ cli.at = "read"
    /\ \E returned \in BOOLEAN :
          LET c == [cli EXCEPT !.reads[cli.infiles[cli.index].stem] = @ + 1]
          IN cli' = IF returned THEN [c EXCEPT !.at = "open"]
                    ELSE EndPass(c, "failed")
    /\ UNCHANGED <<dtx, args, self, copy, out, decoded, pc, wpo>>

\* open(outfile, "w"): the file is created or truncated, or an Exception is
\* raised and caught
OpenOutfile ==
    /\ cli.at = "open"
    /\ \E opened \in BOOLEAN :
          cli' = IF opened
                 THEN [cli EXCEPT !.files[cli.infiles[cli.index].stem] = "empty",
                                  !.at = "write"]
                 ELSE EndPass(cli, "failed")
    /\ UNCHANGED <<dtx, args, self, copy, out, decoded, pc, wpo>>

\* write_wif(outf, pattern): returns, or an Exception is raised and caught
\* with the file partly written
CallWriteWif ==
    /\ cli.at = "write"
    /\ \E returned \in BOOLEAN :
          LET stem == cli.infiles[cli.index].stem
          IN cli' = IF returned
                    THEN EndPass([cli EXCEPT !.files[stem] = "new"], "written")
                    ELSE EndPass([cli EXCEPT !.files[stem] = "partial"], "failed")
    /\ UNCHANGED <<dtx, args, self, copy, out, decoded, pc, wpo>>

NextCli ==
    \/ CollectPath
    \/ CheckExisting
    \/ CallReader
    \/ OpenOutfile
    \/ CallWriteWif

SpecCli == InitCli /\ [][NextCli]_vars

\* construction returned a PatternData
Constructed == pc = "done" /\ self.raised = NoError

\* construction raised
Failed == pc = "done" /\ self.raised # NoError

----------------------------------------------------------------------------
(* Properties of PatternData construction *)

\* __post_init__ got past the cleaning and the threading block, so the
\* tieup / treadling / liftplan it branches on are the cleaned ones
ReachedModeBranch ==
    pc = "done" /\ self.raised \notin {ErrColorsNoTable, ErrEmptyThreading}

\* __post_init__ got past the mode branch
ReachedColorChecks ==
    ReachedModeBranch /\ self.raised \notin {ErrTreadleCount, ErrMissingTreadling}

\* the constructed object holds both a tieup and a treadling
TieupAndTreadling == Len(self.tieup) > 0 /\ Len(self.treadling) > 0

\* every index held in a value set of dict d
IndicesIn(d) == UNION Values(d)

\* C1: after any successful construction num_shafts is at least every shaft
\* index that appears in a value set of threading, tieup or liftplan.
C1_NumShaftsCoversEveryShaft ==
    Constructed =>
        \A x \in IndicesIn(self.threading) \cup IndicesIn(self.tieup)
                    \cup IndicesIn(self.liftplan) : x <= self.num_shafts

\* C2: after a successful construction in tieup+treadling mode num_treadles is
\* at least every key of tieup and every member of every treadling value set.
C2_NumTreadlesCoversEveryTreadle ==
    (Constructed /\ TieupAndTreadling) =>
        \A x \in KeySet(self.tieup) \cup IndicesIn(self.treadling) :
            x <= self.num_treadles

\* C3 as stated: in tieup+treadling mode a treadling entry that references a
\* treadle beyond the count derived from the tieup always fails construction
\* with the count-mismatch error.
C3_RejectedBeyondTieupCount ==
    (ReachedModeBranch /\ TieupAndTreadling
        /\ MaxOf(IndicesIn(self.treadling)) > Len(self.tieup))
    => self.raised = ErrTreadleCount

\* C3 amended: in tieup+treadling mode construction fails with the
\* count-mismatch error exactly when a treadling entry references a treadle
\* beyond max(declared num_treadles, number of tieup entries); nothing is
\* clamped.  Treadle 5 against a tieup of treadles 1..4 is rejected unless
\* num_treadles was declared as 5 or more.
C3_RejectedBeyondNumTreadles ==
    /\ (ReachedModeBranch /\ TieupAndTreadling) =>
          /\ (self.raised = ErrTreadleCount) <=>
                (MaxOf(IndicesIn(self.treadling))
                    > Max2(Len(self.tieup), args.num_treadles))
          /\ self.treadling = CleanIntsSetDict(args.treadling)
    /\ \A n \in {0, 4, 5} :
          (pc = "done" /\ args = ScenarioC(n)) =>
              (self.raised = ErrTreadleCount) <=> (n < 5)

C3_Witness ==
    /\ ReachedModeBranch /\ TieupAndTreadling
    /\ self.raised = ErrTreadleCount
    /\ MaxOf(IndicesIn(self.treadling)) > Len(self.tieup)

\* C4: construction fails with the missing-treadling-information error
\* whenever, after cleaning, liftplan is empty and tieup and treadling are not
\* both non-empty, for inputs whose (cleaned) threading is non-empty and whose
\* color fields pass the check made before cleaning.
C4_MissingTreadlingRaised ==
    (/\ pc = "done"
     /\ ~((Len(args.warp_colors) > 0 \/ Len(args.weft_colors) > 0)
            /\ Len(args.color_table) = 0)
     /\ Len(CleanIntsSetDict(args.threading)) > 0
     /\ Len(CleanIntsSetDict(args.liftplan)) = 0
     /\ ~(Len(CleanIntsSetDict(args.tieup)) > 0
            /\ Len(CleanIntsSetDict(args.treadling)) > 0))
    => self.raised = ErrMissingTreadling

C4_Witness ==
    /\ pc = "done" /\ self.raised = ErrMissingTreadling
    /\ Len(self.tieup) > 0 /\ Len(self.treadling) = 0 /\ Len(self.liftplan) = 0

\* C5 as stated: every constructed Draft has exactly one of (tieup and
\* treadling both non-empty) and (liftplan non-empty).
C5_ExactlyOneMode ==
    Constructed => (TieupAndTreadling # (Len(self.liftplan) > 0))

\* C5 amended: every constructed Draft has at least one of (tieup and
\* treadling both non-empty) and (liftplan non-empty); an input in which
\* neither holds is rejected; an input in which both hold is not rejected for
\* that: the tieup+treadling branch is used and the liftplan is kept.
C5_AtLeastOneMode ==
    /\ Constructed => (TieupAndTreadling \/ Len(self.liftplan) > 0)
    /\ (ReachedModeBranch /\ ~TieupAndTreadling /\ Len(self.liftplan) = 0)
          => Failed
    /\ (ReachedModeBranch /\ TieupAndTreadling /\ Len(self.liftplan) > 0)
          => /\ self.raised # ErrMissingTreadling
             /\ self.treadling_type \in {SingleTreadle, MultiTreadle}
             /\ self.liftplan = CleanIntsSetDict(args.liftplan)

C5_Witness ==
    Constructed /\ TieupAndTreadling /\ Len(self.liftplan) > 0

\* C6: treadling_type is Liftplan when the liftplan branch is used; otherwise
\* MultiTreadle exactly when some treadling entry selects more than one
\* treadle, 0 meaning no treadle, and SingleTreadle otherwise.
C6_TreadlingType ==
    Constructed =>
        self.treadling_type =
            IF ~TieupAndTreadling THEN Liftplan
            ELSE IF \E S \in Values(self.treadling) : Cardinality(S \ {0}) > 1
                 THEN MultiTreadle
                 ELSE SingleTreadle

\* C7: constructing from a non-empty threading and a non-empty liftplan only
\* (no tieup, treadling, color table or per-thread colors, counts left at 0)
\* succeeds with num_shafts = the largest shaft in threading or liftplan,
\* num_treadles = num_shafts and treadling_type = Liftplan; Scenario A gives
\* 3, 3, Liftplan.
C7_LiftplanOnlyConstructs ==
    /\ (/\ pc = "done"
        /\ Len(CleanIntsSetDict(args.threading)) > 0
        /\ Len(CleanIntsSetDict(args.liftplan)) > 0
        /\ args.tieup = <<>> /\ args.treadling = <<>> /\ args.color_table = <<>>
        /\ args.warp_colors = <<>> /\ args.weft_colors = <<>>
        /\ args.num_shafts = 0 /\ args.num_treadles = 0)
       => /\ Constructed
          /\ self.num_shafts =
                MaxOf(IndicesIn(args.threading) \cup IndicesIn(args.liftplan))
          /\ self.num_treadles = self.num_shafts
          /\ self.treadling_type = Liftplan
    /\ (pc = "done" /\ args = ScenarioA)
       => /\ Constructed
          /\ self.num_shafts = 3 /\ self.num_treadles = 3
          /\ self.treadling_type = Liftplan

\* C8 as stated: when only a liftplan is present, num_treadles of the
\* constructed Draft equals num_shafts whatever counts were declared.
C8_NumTreadlesEqualsNumShafts ==
    (Constructed /\ ~TieupAndTreadling) =>
        self.num_treadles = self.num_shafts

\* C8 amended: when only a liftplan is present, num_treadles of the
\* constructed Draft is the larger of num_shafts and the declared num_treadles;
\* it equals num_shafts exactly when the declared num_treadles does not exceed
\* num_shafts.
C8_NumTreadlesAtLeastNumShafts ==
    (Constructed /\ ~TieupAndTreadling) =>
        /\ self.num_treadles = Max2(self.num_shafts, args.num_treadles)
        /\ self.num_shafts =
              MaxOf({args.num_shafts} \cup IndicesIn(self.threading)
                        \cup IndicesIn(self.liftplan))

C8_Witness ==
    /\ Constructed /\ ~TieupAndTreadling
    /\ args.num_treadles > self.num_shafts
    /\ self.num_treadles = args.num_treadles

\* C9: construction fails if warp_colors or weft_colors is non-empty while
\* color_table is empty, and fails if color_table is non-empty while
\* color_range is unset; so a constructed Draft with per-thread colors has a
\* color table and a constructed Draft with a color table has a color range.
C9_ColorsNeedTableNeedsRange ==
    /\ (pc = "done"
        /\ (Len(args.warp_colors) > 0 \/ Len(args.weft_colors) > 0)
        /\ Len(args.color_table) = 0) => Failed
    /\ (pc = "done" /\ Len(args.color_table) > 0 /\ args.color_range = None)
          => Failed
    /\ Constructed =>
          /\ (Len(self.warp_colors) > 0 \/ Len(self.weft_colors) > 0)
                => Len(self.color_table) > 0
          /\ Len(self.color_table) > 0 => self.color_range # None

C9_Witness ==
    /\ pc = "done" /\ self.raised = ErrNoColorRange
    /\ Len(args.color_table) > 0 /\ args.color_range = None

\* color_range is two values with min < max
ValidColorRange(color_range) ==
    /\ color_range # None
    /\ Len(color_range[1]) = 2
    /\ color_range[1][1] < color_range[1][2]

\* C10: construction fails if color_range is not exactly two values with
\* min < max, or if any channel of any color_table entry lies outside
\* [min, max]; Scenario D (channel 300, range (0, 255)) is rejected with the
\* color-table channel error.
C10_ColorRangeAndChannels ==
    /\ (pc = "done" /\ ~ValidColorRange(args.color_range)) => Failed
    /\ (pc = "done" /\ ValidColorRange(args.color_range)
        /\ \E i \in DOMAIN args.color_table : \E c \in 1..3 :
              \/ args.color_table[i].v[c] < args.color_range[1][1]
              \/ args.color_table[i].v[c] > args.color_range[1][2])
          => /\ Failed
             /\ (ReachedColorChecks
                 /\ KeySet(args.color_table) = 1..Len(args.color_table))
                   => self.raised = ErrChannel
    /\ (pc = "done" /\ args = ScenarioD) => self.raised = ErrChannel

C10_Witness ==
    pc = "done" /\ args = ScenarioD /\ self.raised = ErrChannel

\* C11: a constructed Draft with a non-empty color_table has, in stored order,
\* exactly the keys 1..N with N = len(color_table); an input whose keys are any
\* permutation of 1..N is not rejected for its keys and is stored sorted with
\* its values; an input with any other key set is rejected.
C11_ColorTableKeys ==
    /\ (Constructed /\ Len(self.color_table) > 0)
          => Keys(self.color_table) = Range1(Len(self.color_table))
    /\ (ReachedColorChecks /\ Len(args.color_table) > 0
        /\ KeySet(args.color_table) = 1..Len(args.color_table))
          => /\ self.raised # ErrTableKeys
             /\ Keys(self.color_table) = Range1(Len(args.color_table))
             /\ Range(self.color_table) = Range(args.color_table)
    /\ (pc = "done" /\ Len(args.color_table) > 0
        /\ KeySet(args.color_table) # 1..Len(args.color_table))
          => /\ Failed
             /\ (ReachedColorChecks /\ ValidColorRange(args.color_range))
                   => self.raised = ErrTableKeys

C11_Witness ==
    /\ Constructed
    /\ Keys(args.color_table) = <<2, 1>>
    /\ Keys(self.color_table) = <<1, 2>>

\* every color index named by object d: the per-thread colors of both axes
\* and the default color of each axis when it is set
AllColorIndices(d) ==
    Values(d.warp_colors) \cup Values(d.weft_colors)
        \cup Range(d.warp.color) \cup Range(d.weft.color)

\* C12: in every constructed Draft warp.color and weft.color (when set) and
\* every value of warp_colors and weft_colors lie in 1..len(color_table); an
\* input with a color index below 1 or above len(color_table) is rejected.
C12_ColorIndicesInTable ==
    /\ Constructed =>
          \A x \in AllColorIndices(self) : 1 <= x /\ x <= Len(self.color_table)
    /\ (pc = "done"
        /\ \E x \in AllColorIndices(args) : x < 1 \/ x > Len(args.color_table))
          => Failed

C12_Witness ==
    /\ pc = "done" /\ self.raised = ErrColorsTooSmall
    /\ 0 \in Values(args.warp_colors)
    /\ Len(args.color_table) > 0

\* the keys of dict d are stored in ascending order
Ascending(d) == \A i, j \in DOMAIN d : i < j => d[i].k < d[j].k

\* the entries of a per-thread dict that differ from the axis default
NotDefault(d, default_value) ==
    {e \in Range(d) : default_value = None \/ e.v # default_value[1]}

\* the entries of a shed dict that name some index other than 0
NotBlank(d) == {e \in Range(d) : e.v \ {0} # {}}

\* C13: after normalization every per-index map has its keys in ascending
\* order; the per-thread color, spacing and thickness maps hold no entry equal
\* to the axis default; threading, tieup, treadling and liftplan hold no entry
\* whose value set minus {0} is empty; every other input entry is kept with
\* its value unchanged, a 0 beside another index included.
C13_CleanedMaps ==
    Constructed =>
        /\ Ascending(self.threading) /\ Ascending(self.tieup)
        /\ Ascending(self.treadling) /\ Ascending(self.liftplan)
        /\ Ascending(self.color_table)
        /\ Ascending(self.warp_colors) /\ Ascending(self.weft_colors)
        /\ Ascending(self.warp_spacing) /\ Ascending(self.weft_spacing)
        /\ Ascending(self.warp_thickness) /\ Ascending(self.weft_thickness)
        /\ Range(self.warp_colors) = NotDefault(args.warp_colors, args.warp.color)
        /\ Range(self.weft_colors) = NotDefault(args.weft_colors, args.weft.color)
        /\ Range(self.warp_spacing) = NotDefault(args.warp_spacing, args.warp.spacing)
        /\ Range(self.weft_spacing) = NotDefault(args.weft_spacing, args.weft.spacing)
        /\ Range(self.warp_thickness)
              = NotDefault(args.warp_thickness, args.warp.thickness)
        /\ Range(self.weft_thickness)
              = NotDefault(args.weft_thickness, args.weft.thickness)
        /\ Range(self.threading) = NotBlank(args.threading)
        /\ Range(self.tieup) = NotBlank(args.tieup)
        /\ Range(self.treadling) = NotBlank(args.treadling)
        /\ Range(self.liftplan) = NotBlank(args.liftplan)

C13_Witness ==
    /\ Constructed
    /\ ~Ascending(args.warp_spacing)
    /\ Len(self.warp_spacing) = 1
    /\ Len(self.warp_colors) < Len(args.warp_colors)
    /\ Len(self.weft_thickness) < Len(args.weft_thickness)

\* the value sets stored in the four shed dicts of object d
ShedValueSets(d) ==
    Values(d.threading) \cup Values(d.tieup) \cup Values(d.treadling)
        \cup Values(d.liftplan)

\* C14 as stated: after normalization no value set stored in threading,
\* tieup, treadling or liftplan contains 0.
C14_NoZeroStored ==
    Constructed => \A S \in ShedValueSets(self) : 0 \notin S

\* C14 amended: after normalization no value set stored in threading, tieup,
\* treadling or liftplan is empty or holds 0 alone; a 0 that stands beside
\* another index in an input value set is still in the stored set.
C14_NoBlankStored ==
    Constructed =>
        /\ \A S \in ShedValueSets(self) : S # {} /\ S # {0}
        /\ \A S \in ShedValueSets(args) :
              (0 \in S /\ S # {0}) => S \in ShedValueSets(self)

C14_Witness ==
    /\ Constructed
    /\ \E S \in ShedValueSets(self) : 0 \in S
    /\ {0} \in ShedValueSets(args)

\* C15: normalization is idempotent: constructing a Draft from the field
\* values of a constructed Draft succeeds and yields a Draft equal to it in
\* every field, treadling_type included.
C15_Idempotent ==
    pc = "copied" => (copy.raised = NoError /\ copy = self)

C15_Witness ==
    /\ pc = "copied" /\ copy = self
    /\ FieldsOf(self) # args
    /\ self.num_treadles > args.num_treadles
    /\ Len(self.warp_colors) < Len(args.warp_colors)

----------------------------------------------------------------------------
(* Properties of read_dtx, write_wif and read_wif *)

\* write_wif returned
Written == pc \in {"written", "read_back"}

\* C16: for every DTX input that read_dtx accepts, read_wif applied to the
\* text write_wif writes for that draft returns a draft equal to it in every
\* field (spacings are held to the 3 decimals written).
C16_RoundTrip ==
    (pc = "read_back" /\ dtx # NoDtx) =>
        (decoded.raised = NoError /\ decoded = self)

\* the value of the Color entry of section [name] of the stream, as a set:
\* empty when the section has no such entry
ColorEntry(name) ==
    {e.v : e \in {e \in Range(SectionEntries(out, name)) : e.k = <<"color">>}}

\* the Color text of one index, or of index,r,g,b
ColorText(ww_data) ==
    IF ww_data.color_rgb = None THEN StrInt(ww_data.color[1])
    ELSE Join(<<",">>, StrInts(<<ww_data.color[1]>> \o ww_data.color_rgb[1]))

\* C17: write_wif writes the Color entry of [WARP] and [WEFT] as one integer
\* (the palette index) when color_rgb is absent and as four comma-joined
\* integers index,r,g,b when color_rgb is present, the 1-or-4-integer form
\* read_wif accepts.
C17_ColorEntry ==
    Written =>
        /\ self.warp.color # None =>
              /\ ColorEntry("WARP") = {ColorText(self.warp)}
              /\ \A v \in ColorEntry("WARP") :
                    /\ Len(Split(v, ",")) \in {1, 4}
                    /\ \A p \in Range(Split(v, ",")) : IntText(p)
        /\ self.weft.color # None =>
              /\ ColorEntry("WEFT") = {ColorText(self.weft)}
              /\ \A v \in ColorEntry("WEFT") :
                    /\ Len(Split(v, ",")) \in {1, 4}
                    /\ \A p \in Range(Split(v, ",")) : IntText(p)

\* C18: write_wif produces no partial result: when it fails because a color
\* table entry does not have 3 components in [0, 255], nothing has been
\* written to the stream.
C18_NothingWrittenOnFailure ==
    pc = "write_failed" => out = <<>>

\* the [CONTENTS] entry of the stream for section name says true
ContentsTrue(name) ==
    \E i \in DOMAIN out :
        /\ out[i].header = "" /\ out[i].key = <<name>> /\ out[i].value = <<"true">>
        /\ \E h \in HeaderIndices(out) :
              /\ h < i /\ out[h].header = "CONTENTS"
              /\ \A g \in HeaderIndices(out) : g < i => g <= h

\* the stream holds the header [name]
SectionWritten(name) == \E i \in DOMAIN out : out[i].header = name

\* the optional sections of a WIF file, each with the truth value of the
\* field of the draft it is written from
OptionalSections ==
    {<<"COLOR PALETTE", Truthy(self.color_table) /\ self.color_range # None>>,
     <<"COLOR TABLE", Truthy(self.color_table)>>,
     <<"TIEUP", Truthy(self.tieup)>>,
     <<"TREADLING", Truthy(self.treadling)>>,
     <<"LIFTPLAN", Truthy(self.liftplan)>>,
     <<"WARP COLORS", Truthy(self.warp_colors)>>,
     <<"WEFT COLORS", Truthy(self.weft_colors)>>,
     <<"WARP SPACING", Truthy(self.warp_spacing)>>,
     <<"WEFT SPACING", Truthy(self.weft_spacing)>>,
     <<"WARP THICKNESS", Truthy(self.warp_thickness)>>,
     <<"WEFT THICKNESS", Truthy(self.weft_thickness)>>}

\* C19: in the output of write_wif, for every optional section the
\* [CONTENTS] entry is true exactly when the field of the draft is non-empty,
\* which is exactly when the section is written later in the output.
C19_ContentsMatchSections ==
    Written =>
        \A s \in OptionalSections :
            /\ ContentsTrue(s[1]) <=> s[2]
            /\ SectionWritten(s[1]) <=> s[2]
            /\ \A i, j \in DOMAIN out :
                  (out[i].header = "CONTENTS" /\ out[j].header = s[1]) => i < j

C19_Witness ==
    /\ pc = "written"
    /\ ~Truthy(self.warp_colors) /\ ~SectionWritten("WARP COLORS")
    /\ Truthy(self.weft_colors) /\ SectionWritten("WEFT COLORS")
    /\ ~Truthy(self.tieup) /\ ~ContentsTrue("TIEUP")
    /\ Truthy(self.liftplan) /\ ContentsTrue("LIFTPLAN")
    /\ Truthy(self.warp_thickness) /\ ~Truthy(self.weft_spacing)

\* the sections of a WIF file in the order write_wif writes them
SectionOrder ==
    <<"WIF", "CONTENTS", "TEXT", "WARP COLORS", "WEFT COLORS",
      "WARP SPACING", "WARP THICKNESS", "WEFT SPACING", "WEFT THICKNESS",
      "THREADING", "TIEUP", "TREADLING", "LIFTPLAN", "WEAVING",
      "WARP", "WEFT", "COLOR TABLE", "COLOR PALETTE">>

\* the place of section name in SectionOrder
Place(name) == CHOOSE i \in DOMAIN SectionOrder : SectionOrder[i] = name

\* C20: at every point of write_wif the sections written so far stand in the
\* one fixed order [WIF], [CONTENTS], [TEXT], [WARP COLORS], [WEFT COLORS],
\* the spacing and thickness sections, [THREADING], [TIEUP], [TREADLING],
\* [LIFTPLAN], [WEAVING], [WARP], [WEFT], [COLOR TABLE], [COLOR PALETTE], so
\* no section is written twice; a conditional section is written only if its
\* field is non-empty; when write_wif returns, [THREADING], [WEAVING],
\* [WARP] and [WEFT] have been written.
C20_FixedOrder ==
    LET names == SectionNames(out)
    IN /\ \A i \in DOMAIN names : names[i] \in Range(SectionOrder)
       /\ \A i, j \in DOMAIN names :
             i < j => Place(names[i]) < Place(names[j])
       /\ \A s \in OptionalSections : SectionWritten(s[1]) => s[2]
       /\ Written =>
             \A name \in {"WIF", "CONTENTS", "TEXT", "THREADING", "WEAVING",
                          "WARP", "WEFT"} : SectionWritten(name)

C20_Witness ==
    pc = "written" /\ SectionNames(out) = SectionOrder

----------------------------------------------------------------------------
(* Properties of read_wpo *)

\* the byte of the stream at place i, 0 beyond its end
ByteAt(i) == IF i \in DOMAIN wpo.bytes THEN wpo.bytes[i] ELSE 0

\* the two-byte length at places i and i + 1
LengthAt(i) == 256 * ByteAt(i) + ByteAt(i + 1)

\* the least n with b <= 8 * n
CeilDiv8(b) == CHOOSE n \in 0..32 : 8 * (n - 1) < b /\ b <= 8 * n

RECURSIVE SizeOf(_)
\* the number of bytes of a list of header fields
SizeOf(fields) ==
    IF fields = <<>> THEN 0 ELSE Head(fields).size + SizeOf(Tail(fields))

\* the number of bytes of the header
HeaderSize == SizeOf(HeaderFields)

\* where each part of the layout starts, as the header and the length
\* prefixes of the stream declare it
ThreadingAt == HeaderSize + 1

WarpColorsAt == ThreadingAt + 2 + LengthAt(ThreadingAt)

WeftColorsAt == WarpColorsAt + 2 + LengthAt(WarpColorsAt)

ShedAt == WeftColorsAt + 2 + LengthAt(WeftColorsAt)

\* the length prefix of the treadling, behind a tieup of ByteAt(6) masks
TreadlingAt == ShedAt + ByteAt(6) * CeilDiv8(ByteAt(5))

GridsAt ==
    IF ByteAt(3) = 100 THEN ShedAt + 2 + LengthAt(ShedAt) * CeilDiv8(ByteAt(5))
    ELSE IF ByteAt(3) = 102
    THEN TreadlingAt + 2 + LengthAt(TreadlingAt) * CeilDiv8(ByteAt(6))
    ELSE TreadlingAt + 2 + LengthAt(TreadlingAt)

ColorsAt == GridsAt + 66

\* the number of bytes the header and the length prefixes declare
Declared == ColorsAt + 3 * ByteAt(ColorsAt)

\* the 1-based places of the 1 bits of a byte run, the first byte holding
\* bits 1..8
BitsOfRun(run) ==
    {i + 1 : i \in {j \in 0..(8 * Len(run) - 1) :
                       (run[(j \div 8) + 1] \div (2 ^ (j % 8))) % 2 = 1}}

\* table is what the masks of size bytes each that end at place last of the
\* stream decode to
MasksDecoded(table, size, last) ==
    \A k \in DOMAIN table :
        /\ table[k].k = k
        /\ table[k].v =
              BitsOfRun(SubSeq(wpo.bytes, last - (Len(table) - k + 1) * size + 1,
                               last - (Len(table) - k) * size))

\* read_wpo stands between two read_bytes calls, at the start of phase
AtStartOf(phase) ==
    pc = "read_wpo" /\ wpo.phase = phase /\ wpo.data = <<>> /\ wpo.left = None

\* C21: read_bitmask_sequence with bits_per_mask = b reads ceil(b/8) bytes
\* per mask, takes them least significant byte first, and maps the k-th mask
\* to the set {i+1 : bit i of the mask is 1}; the one-byte mask 0b00001011
\* with bits_per_mask = 4 yields {1,2,4}.
C21_BitmaskDecoded ==
    /\ (AtStartOf("grids") /\ ByteAt(3) = 100) =>
          /\ MasksDecoded(wpo.liftplan, CeilDiv8(ByteAt(5)), wpo.pos)
          /\ \A k \in DOMAIN wpo.liftplan :
                (ByteAt(5) = 4 /\ ByteAt(wpo.pos - Len(wpo.liftplan) + k) = 11)
                    => wpo.liftplan[k].v = {1, 2, 4}
    /\ (AtStartOf("grids") /\ ByteAt(3) = 102) =>
          MasksDecoded(wpo.treadling, CeilDiv8(ByteAt(6)), wpo.pos)
    /\ AtStartOf("treadling") =>
          MasksDecoded(wpo.tieup, CeilDiv8(ByteAt(5)), wpo.pos)

C21_Witness ==
    /\ AtStartOf("grids") /\ ByteAt(3) = 100 /\ ByteAt(5) = 4
    /\ Len(wpo.liftplan) = 2
    /\ ByteAt(wpo.pos) = 11
    /\ wpo.liftplan[2].v = {1, 2, 4}

\* a liftplan of two-byte masks has been read
C21_TwoByteMasks ==
    /\ AtStartOf("grids") /\ ByteAt(3) = 100 /\ ByteAt(5) = 9
    /\ \E k \in DOMAIN wpo.liftplan : 9 \in wpo.liftplan[k].v

\* read_wpo returned a Draft
WpoReturned == pc = "done" /\ wpo.phase = "construct" /\ self.raised = NoError

\* C22: if the stream ends before a field of the layout is fully read,
\* read_wpo fails with EOFError and returns no Draft, also when the stream
\* delivers bytes in short reads: a read_bytes call that finds the stream at
\* its end raises EOFError, and a Draft is returned only after exactly the
\* bytes that the header and the length prefixes declare have been read.
C22_TruncationIsFatal ==
    /\ (pc = "done" /\ wpo.phase = "construct" /\ self.raised # ErrZeroDivision) =>
          (wpo.pos = Declared /\ Declared <= Len(wpo.bytes))
    /\ (pc = "done" /\ Declared > Len(wpo.bytes)) =>
          self.raised \in {ErrEOF, ErrWpoId, ErrFileType, ErrBitsPerMask}
    /\ (pc = "done" /\ self.raised = ErrEOF) =>
          (wpo.pos = Len(wpo.bytes) /\ Declared > Len(wpo.bytes))
    /\ (pc = "read_wpo" /\ wpo.phase = "construct") => Declared <= Len(wpo.bytes)

\* a stream that ends inside the three bytes of a color, after short reads
C22_Witness ==
    /\ pc = "done" /\ self.raised = ErrEOF
    /\ wpo.phase = "color_table" /\ Len(wpo.data) = 2 /\ Len(wpo.items) = 1
    /\ Declared = Len(wpo.bytes) + 1

\* C23 as stated: the threading byte at place k holding the on-disk shaft
\* value b yields the threading entry k -> {b+1}.
C23_ThreadingPlusOne ==
    (pc = "done" /\ wpo.phase = "construct" /\ self.raised # ErrZeroDivision) =>
        /\ Len(args.threading) = LengthAt(ThreadingAt)
        /\ \A k \in DOMAIN args.threading :
              args.threading[k] = [k |-> k, v |-> {ByteAt(ThreadingAt + 1 + k) + 1}]

\* C23, amended: the threading byte at place k holding the value b yields
\* the threading entry k -> {b}: the on-disk shaft value is taken as it is
\* (1-based, 0 for a thread on no shaft).
C23_ThreadingAsStored ==
    (pc = "done" /\ wpo.phase = "construct" /\ self.raised # ErrZeroDivision) =>
        /\ Len(args.threading) = LengthAt(ThreadingAt)
        /\ \A k \in DOMAIN args.threading :
              args.threading[k] = [k |-> k, v |-> {ByteAt(ThreadingAt + 1 + k)}]

C23_Witness ==
    /\ WpoReturned
    /\ ByteAt(ThreadingAt + 2) = 2 /\ ByteAt(ThreadingAt + 3) = 1
    /\ args.threading = <<[k |-> 1, v |-> {2}], [k |-> 2, v |-> {1}]>>
    /\ self.threading = args.threading

\* the entries of a table of n runs of size bytes each, the first run
\* starting at place first of the stream
RunsFrom(first, size, n) ==
    [k \in 1..n |-> SubSeq(wpo.bytes, first + (k - 1) * size,
                           first + k * size - 1)]

\* table is the masks of the n runs of size bytes from place first
MasksFrom(table, first, size, n) ==
    /\ Len(table) = n
    /\ \A k \in DOMAIN table :
          table[k] = [k |-> k, v |-> BitsOfRun(RunsFrom(first, size, n)[k])]

\* read_wpo read every table and evaluated the arguments of PatternData
WpoArgsBuilt ==
    pc = "done" /\ wpo.phase = "construct" /\ self.raised # ErrZeroDivision

\* C29: after the header and the threading and color tables read_wpo reads,
\* for a liftplan file (100), one length-prefixed sequence of shaft-width
\* masks as liftplan, tieup and treadling staying empty; for single (101) and
\* multiple (102) treadling a tieup of exactly num_treadles shaft-width masks
\* without a length prefix and then a length-prefixed treadling
\* (treadle-width masks for 102, one byte per pick in a singleton set for
\* 101), liftplan staying empty; it then skips exactly 66 bytes and reads a
\* one-byte count and that many 3-byte colors, keyed 1..count in file order.
C29_LayoutByType ==
    /\ AtStartOf("grids") => wpo.pos = GridsAt - 1
    /\ AtStartOf("color_table") => wpo.pos = GridsAt + 66 - 1
    /\ WpoArgsBuilt =>
          /\ ByteAt(3) = 100 =>
                /\ MasksFrom(args.liftplan, ShedAt + 2, CeilDiv8(ByteAt(5)),
                             LengthAt(ShedAt))
                /\ args.tieup = <<>> /\ args.treadling = <<>>
          /\ ByteAt(3) \in {101, 102} =>
                /\ MasksFrom(args.tieup, ShedAt, CeilDiv8(ByteAt(5)), ByteAt(6))
                /\ args.liftplan = <<>>
          /\ ByteAt(3) = 102 =>
                MasksFrom(args.treadling, TreadlingAt + 2, CeilDiv8(ByteAt(6)),
                          LengthAt(TreadlingAt))
          /\ ByteAt(3) = 101 =>
                /\ Len(args.treadling) = LengthAt(TreadlingAt)
                /\ \A k \in DOMAIN args.treadling :
                      args.treadling[k] =
                          [k |-> k, v |-> {ByteAt(TreadlingAt + 1 + k)}]
          /\ Len(args.color_table) = ByteAt(ColorsAt)
          /\ \A k \in DOMAIN args.color_table :
                args.color_table[k] =
                    [k |-> k, v |-> RunsFrom(ColorsAt + 1, 3, k)[k]]
          /\ wpo.pos = ColorsAt + 3 * ByteAt(ColorsAt)

\* a multiple-treadling file of two tieup masks, two treadling masks and two
\* colors was read to its end
C29_Witness ==
    /\ WpoReturned /\ ByteAt(3) = 102
    /\ Len(args.tieup) = 2 /\ Len(args.treadling) = 2
    /\ args.treadling[2].v = {1, 2}
    /\ args.color_table[2].v = <<255, 128, 1>>

\* a single-treadling file and a liftplan file were read to their ends
C29_SingleTreadlingRead ==
    WpoReturned /\ ByteAt(3) = 101 /\ Len(args.treadling) = 2

C29_LiftplanRead ==
    WpoReturned /\ ByteAt(3) = 100 /\ Len(args.liftplan) = 2

----------------------------------------------------------------------------
(* Properties of read_dtx and read_wif on given files *)

\* the first entry of a per-thread color list of a DTX file, 1-based
FirstColor(colors) == Some(colors[1][1] + 1)

\* the default color the axis gets by the three cases
DefaultColorOf(colors, color_table, fallback) ==
    IF colors # None /\ colors[1] # <<>> THEN FirstColor(colors)
    ELSE IF color_table # None THEN Some(fallback)
    ELSE None

\* read_dtx built the arguments of PatternData from the DTX file
DtxArgsBuilt == dtx # NoDtx /\ pc # "read_dtx" /\ DtxError(dtx) = NoError

\* C24: read_dtx sets each axis default color thus: the first entry of the
\* axis' per-thread color list if the file has a non-empty one; else, if the
\* file has a color table, 1 for warp and 2 for weft; else no default color.
C24_DefaultColor ==
    DtxArgsBuilt =>
        /\ args.warp.color = DefaultColorOf(dtx.warp_colors, dtx.color_table, 1)
        /\ args.weft.color = DefaultColorOf(dtx.weft_colors, dtx.color_table, 2)

\* the errors that are RuntimeError
RuntimeErrors ==
    {ErrColorsNoTable, ErrTreadleCount, ErrMissingTreadling, ErrNoColorRange,
     ErrRangeLen, ErrRangeOrder, ErrTableKeys, ErrChannel, ErrColorsTooLarge,
     ErrColorsTooSmall, ErrDefaultColor, ErrColorTableEntry, ErrPaletteRange,
     ErrDtxColor}

\* C25: whenever PatternData construction, read_dtx or read_wif rejects its
\* input, what is raised is a RuntimeError and never another exception; also
\* for empty threading, an empty color table, a DTX data line before any
\* section marker, and a WIF file without a color range.
C25_OnlyRuntimeErrors ==
    /\ (pc = "done" /\ self.raised # NoError) => self.raised \in RuntimeErrors
    /\ (pc \in {"read_back", "wif_read"} /\ decoded.raised # NoError) =>
          decoded.raised \in RuntimeErrors

\* the stream has a Range entry in a [COLOR PALETTE] section
HasRange(lines) ==
    \E i \in DOMAIN lines :
        /\ lines[i].header = "" /\ lines[i].key = <<"Range">>
        /\ SectionAt(lines, i) = "COLOR PALETTE"

\* the stream has a color table or colors per thread
HasColors(lines) ==
    \E i \in DOMAIN lines :
        lines[i].header \in {"COLOR TABLE", "WARP COLORS", "WEFT COLORS"}

\* C30: read_wif returns a PatternData only for streams that have a Range
\* entry in [COLOR PALETTE]; without it the call fails before PatternData is
\* constructed (color_range is never defaulted), even for a stream with no
\* color table and no per-thread colors.
C30_NoRangeNoDraft ==
    (pc = "wif_read" /\ ~HasRange(out)) =>
        /\ decoded = ReadFailed(decoded.raised)
        /\ decoded.raised = ErrUnboundColorRange

C30_Witness ==
    /\ pc = "wif_read" /\ ~HasRange(out) /\ ~HasColors(out)
    /\ decoded.raised = ErrUnboundColorRange

\* a stream that has the Range entry is read as a PatternData
C30_RangeRead ==
    pc = "wif_read" /\ HasRange(out) /\ decoded.raised = NoError

----------------------------------------------------------------------------
(* The order of the checks of PatternData construction *)

\* the arguments hold per-thread colors but no color table
ColorsWithoutTable ==
    /\ Len(args.warp_colors) > 0 \/ Len(args.weft_colors) > 0
    /\ Len(args.color_table) = 0

\* the cleaned arguments hold both a tieup and a treadling
BothGiven ==
    /\ Len(CleanIntsSetDict(args.tieup)) > 0
    /\ Len(CleanIntsSetDict(args.treadling)) > 0

\* a treadling entry references a treadle beyond the treadle count
TreadleBeyondCount ==
    /\ BothGiven
    /\ MaxOf(IndicesIn(CleanIntsSetDict(args.treadling)))
          > Max2(Len(CleanIntsSetDict(args.tieup)), args.num_treadles)

\* neither a liftplan nor both a tieup and a treadling is given
NeitherBranch == ~BothGiven /\ Len(CleanIntsSetDict(args.liftplan)) = 0

\* some channel of some color lies outside the color range
SomeChannelOutside ==
    \E i \in DOMAIN args.color_table : \E c \in DOMAIN args.color_table[i].v :
        \/ args.color_table[i].v[c] < args.color_range[1][1]
        \/ args.color_table[i].v[c] > args.color_range[1][2]

\* the first color-index failure of one axis, its colors cleaned
AxisFailure(colors, default) ==
    LET n == Len(args.color_table)
        kept == {colors[i].v : i \in {j \in DOMAIN colors :
                                          default = None \/ colors[j].v # default[1]}}
    IN IF \E c \in kept : c > n THEN ErrColorsTooLarge
       ELSE IF \E c \in kept : c < 1 THEN ErrColorsTooSmall
       ELSE IF default # None /\ (default[1] < 1 \/ default[1] > n)
       THEN ErrDefaultColor
       ELSE NoError

\* what construction from args raises when its checks are made in the order
\* of __post_init__, NoError if every check passes
EarliestFailure ==
    IF ColorsWithoutTable THEN ErrColorsNoTable
    ELSE IF Len(CleanIntsSetDict(args.threading)) = 0 THEN ErrEmptyThreading
    ELSE IF TreadleBeyondCount THEN ErrTreadleCount
    ELSE IF NeitherBranch THEN ErrMissingTreadling
    ELSE IF Len(args.color_table) > 0 /\ args.color_range = None
    THEN ErrNoColorRange
    ELSE IF args.color_range # None /\ Len(args.color_range[1]) # 2
    THEN ErrRangeLen
    ELSE IF args.color_range # None
            /\ args.color_range[1][1] >= args.color_range[1][2]
    THEN ErrRangeOrder
    ELSE IF args.color_range # None /\ Len(args.color_table) > 0
            /\ KeySet(args.color_table) # 1..Len(args.color_table)
    THEN ErrTableKeys
    ELSE IF args.color_range # None /\ SomeChannelOutside THEN ErrChannel
    ELSE IF Len(args.color_table) = 0 THEN ErrEmptyColorTable
    ELSE IF AxisFailure(args.warp_colors, args.warp.color) # NoError
    THEN AxisFailure(args.warp_colors, args.warp.color)
    ELSE AxisFailure(args.weft_colors, args.weft.color)

\* C28 as stated: when an input violates several invariants at once the
\* failure reported is the one of the earliest step in the order treadle
\* count, missing branch, then the color checks; an input with per-thread
\* colors but no color table and with neither liftplan nor tieup+treadling
\* fails with the missing-branch error.
C28_ModeBranchBeforeColors ==
    /\ (pc = "done" /\ Len(CleanIntsSetDict(args.threading)) > 0
        /\ TreadleBeyondCount) => self.raised = ErrTreadleCount
    /\ (pc = "done" /\ Len(CleanIntsSetDict(args.threading)) > 0
        /\ NeitherBranch) => self.raised = ErrMissingTreadling

\* C28, amended: the failure reported is the one of the earliest step in
\* the order: per-thread colors without a color table (tested on the
\* arguments as given, before any cleaning), empty threading, treadle count,
\* missing branch, color table without color range, range shape, table-key
\* contiguity, channel bounds, empty color table, per-axis color-index
\* bounds (warp before weft).  An input with per-thread colors but no color
\* table and with neither liftplan nor tieup+treadling fails with the
\* colors-without-table error.
C28_EarliestFailureReported ==
    pc = "done" => self.raised = EarliestFailure

C28_Witness ==
    /\ pc = "done" /\ ColorsWithoutTable /\ NeitherBranch
    /\ Len(CleanIntsSetDict(args.threading)) > 0
    /\ self.raised = ErrColorsNoTable

\* a treadle-count failure is reported for an input that also fails a color
\* check
C28_TreadleCountBeforeColors ==
    /\ pc = "done" /\ TreadleBeyondCount /\ self.raised = ErrTreadleCount
    /\ \/ Len(args.color_table) = 0
       \/ args.color_range = None
       \/ SomeChannelOutside

----------------------------------------------------------------------------
(* Properties of run_x_to_wif *)

\* the run is under way or over
Running == cli.at # "not run"

\* the results logged for the file of stem
ResultsOf(stem) ==
    {cli.log[i].result : i \in {j \in DOMAIN cli.log : cli.log[j].file.stem = stem}}

\* C26: run without --overwrite, an input whose .wif file exists is skipped:
\* the reader is not run for it and the existing file is never opened for
\* writing or changed; with --overwrite the existing file is replaced by the
\* result of a successful conversion.
C26_ExistingOutputKept ==
    Running =>
        \A stem \in Stems :
            /\ (~cli.overwrite /\ cli.before[stem] = "old") =>
                  /\ cli.files[stem] = "old"
                  /\ cli.reads[stem] = 0
                  /\ ResultsOf(stem) \subseteq {"skipped"}
                  /\ ~(cli.at \in {"read", "open", "write"}
                       /\ cli.infiles[cli.index].stem = stem)
            /\ (cli.overwrite /\ cli.before[stem] = "old") =>
                  /\ "skipped" \notin ResultsOf(stem)
                  /\ "written" \in ResultsOf(stem) => cli.files[stem] = "new"
                  /\ cli.files[stem] = "new" => "written" \in ResultsOf(stem)

C26_Witness ==
    /\ Running /\ cli.at = "done" /\ ~cli.overwrite
    /\ cli.before["a"] = "old" /\ cli.files["a"] = "old"
    /\ ResultsOf("a") = {"skipped"}

\* with --overwrite an existing file was replaced
C26_Overwritten ==
    /\ Running /\ cli.at = "done" /\ cli.overwrite
    /\ cli.before["a"] = "old" /\ cli.files["a"] = "new"

RECURSIVE FirstOccurrences(_)
\* the elements of a list in the order of their first occurrence
FirstOccurrences(list) ==
    IF list = <<>> THEN <<>>
    ELSE LET front == FirstOccurrences(SubSeq(list, 1, Len(list) - 1))
             last == list[Len(list)]
         IN IF last \in Range(front) THEN front ELSE Append(front, last)

\* C27: a failure on one file never prevents the remaining files from being
\* processed: every selected input file is attempted exactly once, in
\* selection order (a path given twice is attempted once), and the run ends
\* after the last file whatever the outcomes of the earlier ones.
C27_EveryFileOnce ==
    Running =>
        /\ \A i \in DOMAIN cli.log : cli.log[i].file = cli.infiles[i]
        /\ \A stem \in Stems : cli.reads[stem] <= 1
        /\ cli.at # "collect" => cli.infiles = FirstOccurrences(cli.listed)
        /\ cli.at \in {"loop", "read", "open", "write"} =>
              cli.index = Len(cli.log) + 1 /\ cli.index <= Len(cli.infiles)
        /\ cli.at = "done" =>
              /\ Len(cli.log) = Len(cli.infiles)
              /\ \A i \in DOMAIN cli.log :
                    cli.reads[cli.log[i].file.stem] =
                        IF cli.log[i].result = "skipped" THEN 0 ELSE 1

\* the first file failed and the second was written; d/x was named twice
C27_Witness ==
    /\ Running /\ cli.at = "done"
    /\ cli.inpath = <<[stem |-> "d", suffix |-> ""], DtxPath("d/x")>>
    /\ Len(cli.log) = 2
    /\ cli.log[1].result = "failed" /\ cli.log[2].result = "written"

====
